---- MODULE Spec2Model ----
(***************************************************************************)
(* Conversational inventory bot (LINE webhook -> Supabase ledger).         *)
(* Model of src/index.js: event dedup, command / postback parsing, the     *)
(* per-actor selection caches, the 5 s outbound lock and the outbound      *)
(* orchestration against the lot ledger.                                   *)
(*                                                                         *)
(* Strings of the program are sequences of one-character strings, so that  *)
(* trimming, pattern matching and number parsing are computed, not assumed.*)
(***************************************************************************)
EXTENDS Integers, Sequences, FiniteSets, TLC

(***************************************************************************)
(* Characters and elementary string functions                              *)
(***************************************************************************)
Digits == <<"0", "1", "2", "3", "4", "5", "6", "7", "8", "9">>

UpperCase == <<"A", "B", "C", "D", "E", "F", "G", "H", "I", "J", "K", "L", "M",
               "N", "O", "P", "Q", "R", "S", "T", "U", "V", "W", "X", "Y", "Z">>

LowerCase == <<"a", "b", "c", "d", "e", "f", "g", "h", "i", "j", "k", "l", "m",
               "n", "o", "p", "q", "r", "s", "t", "u", "v", "w", "x", "y", "z">>

Range(s) == { s[i] : i \in DOMAIN s }

IsDigit(c) == c \in Range(Digits)

DigitVal(c) == (CHOOSE i \in DOMAIN Digits : Digits[i] = c) - 1

\* the CJK characters of the command grammar and of the warehouse labels, each
\* written as one character of the model (its code point)
zh ==
  [chu |-> "U+51FA",
   ku |-> "U+5EAB",
   xiang |-> "U+7BB1",
   jian |-> "U+4EF6",
   ge |-> "U+500B",
   san |-> "U+6563",
   cang |-> "U+5009",
   cha |-> "U+67E5",
   xun |-> "U+8A62",
   bian |-> "U+7DE8",
   hao |-> "U+865F",
   tiao |-> "U+689D",
   ma |-> "U+78BC",
   ban |-> "U+7248",
   ben |-> "U+672C",
   zong |-> "U+7E3D",
   jia |-> "U+593E",
   huan |-> "U+63DB",
   pin |-> "U+54C1",
   che |-> "U+64A4",
   tai |-> "U+53F0",
   wei |-> "U+672A",
   zhi |-> "U+6307",
   ding |-> "U+5B9A",
   qu |-> "U+53D6",
   xiao |-> "U+6D88"]

\* full-width characters, each written as one character of the model
IdeographicSpace == "U+3000"

FwLParen == "U+FF08"

FwRParen == "U+FF09"

FwColon == "U+FF1A"

\* \s of a JavaScript regular expression and the characters String.trim removes
\* (the ASCII space and the full-width space U+3000 are the ones used here).
IsSpace(c) == c \in {" ", IdeographicSpace}

\* [a-z0-9_] after lower-casing
IsCodeChar(c) == c \in Range(LowerCase) \cup Range(Digits) \cup {"_"}

LowerChar(c) ==
  IF c \in Range(UpperCase)
    THEN LowerCase[CHOOSE i \in DOMAIN UpperCase : UpperCase[i] = c]
    ELSE c

toLowerCase(s) == [i \in DOMAIN s |-> LowerChar(s[i])]

Drop(s, n) == IF n >= Len(s) THEN <<>> ELSE SubSeq(s, n + 1, Len(s))

Take(s, n) == IF n >= Len(s) THEN s ELSE SubSeq(s, 1, n)

StartsWith(s, p) == Len(s) >= Len(p) /\ SubSeq(s, 1, Len(p)) = p

\* length of the longest prefix of s whose characters all satisfy the class
RECURSIVE SpanSpace(_)
SpanSpace(s) == IF s # <<>> /\ IsSpace(s[1]) THEN 1 + SpanSpace(Tail(s)) ELSE 0

RECURSIVE SpanDigit(_)
SpanDigit(s) == IF s # <<>> /\ IsDigit(s[1]) THEN 1 + SpanDigit(Tail(s)) ELSE 0

RECURSIVE SpanNotParen(_)
SpanNotParen(s) ==
  IF s # <<>> /\ s[1] \notin {")", FwRParen} THEN 1 + SpanNotParen(Tail(s)) ELSE 0

SkipSpace(s) == Drop(s, SpanSpace(s))

RECURSIVE TrimEnd(_)
TrimEnd(s) ==
  IF s # <<>> /\ IsSpace(s[Len(s)]) THEN TrimEnd(SubSeq(s, 1, Len(s) - 1)) ELSE s

\* String.prototype.trim
trim(s) == TrimEnd(SkipSpace(s))

\* value of a run of decimal digits (parseInt(run, 10) of a \d+ capture)
RECURSIVE DigitsValue(_)
DigitsValue(s) ==
  IF s = <<>> THEN 0 ELSE 10 * DigitsValue(SubSeq(s, 1, Len(s) - 1)) + DigitVal(s[Len(s)])

\* t.replace(/[^\d]/g, '')
RECURSIVE OnlyDigits(_)
OnlyDigits(s) ==
  IF s = <<>> THEN <<>>
  ELSE IF IsDigit(s[1]) THEN <<s[1]>> \o OnlyDigits(Tail(s)) ELSE OnlyDigits(Tail(s))

HasDigit(s) == \E i \in DOMAIN s : IsDigit(s[i])

\* A number that may be NaN is a sequence: <<>> for NaN, <<n>> for the number n.
NaN == <<>>

\* parseInt(s, 10): leading white space, an optional sign, then the longest run
\* of digits; NaN when there is no digit there.
parseInt10(s) ==
  LET t == SkipSpace(s)
      neg == t # <<>> /\ t[1] = "-"
      u == IF t # <<>> /\ t[1] \in {"-", "+"} THEN Tail(t) ELSE t
      n == SpanDigit(u)
  IN IF n = 0 THEN NaN
     ELSE IF neg THEN <<0 - DigitsValue(Take(u, n))>> ELSE <<DigitsValue(Take(u, n))>>

\* a slip of the default: 1 where the number is missing
OrZero_One(x) == IF x = NaN THEN 1 ELSE x[1]

\* x || 0 for a number x
OrZero(x) == IF x = NaN THEN 0 ELSE x[1]

(***************************************************************************)
(* helpers                                                                 *)
(***************************************************************************)
\* null / undefined of a string-valued expression (no string of the model equals it)
Null == <<"null">>

skuKey_(s) == toLowerCase(trim(s))

(***************************************************************************)
(* warehouse label / code                                                  *)
(***************************************************************************)
main == <<"m", "a", "i", "n">>

main_warehouse == <<"m", "a", "i", "n", "_", "w", "a", "r", "e", "h", "o", "u", "s", "e">>

swap == <<"s", "w", "a", "p">>

withdraw == <<"w", "i", "t", "h", "d", "r", "a", "w">>

unspecified == <<"u", "n", "s", "p", "e", "c", "i", "f", "i", "e", "d">>

FIX_CODE_TO_NAME ==
  << <<main, <<zh.zong, zh.cang>> >>,
     <<main_warehouse, <<zh.zong, zh.cang>> >>,
     <<swap, <<zh.jia, zh.huan, zh.pin>> >>,
     <<withdraw, <<zh.che, zh.tai>> >>,
     <<unspecified, <<zh.wei, zh.zhi, zh.ding>> >> >>

resolveWarehouseLabel_(codeOrName) ==
  LET k == trim(codeOrName)
      hits == { i \in DOMAIN FIX_CODE_TO_NAME : FIX_CODE_TO_NAME[i][1] = k }
  IN IF k = <<>> THEN <<zh.wei, zh.zhi, zh.ding>>
     ELSE IF hits # {} THEN FIX_CODE_TO_NAME[CHOOSE i \in hits : TRUE][2]
     ELSE k

\* a slip of the resolver: the labels are not looked up
getWarehouseCodeForLabel_CodesOnly(labelOrCode) ==
  IF trim(labelOrCode) = <<>> THEN unspecified
  ELSE IF \A i \in DOMAIN trim(labelOrCode) : IsCodeChar(toLowerCase(trim(labelOrCode))[i])
    THEN (IF toLowerCase(trim(labelOrCode)) = main_warehouse THEN main
          ELSE toLowerCase(trim(labelOrCode)))
  ELSE unspecified

\* a slip of the resolver: the legacy alias is not folded
getWarehouseCodeForLabel_NoFold(labelOrCode) ==
  IF trim(labelOrCode) = <<>> THEN unspecified
  ELSE IF \A i \in DOMAIN trim(labelOrCode) : IsCodeChar(toLowerCase(trim(labelOrCode))[i])
    THEN toLowerCase(trim(labelOrCode))
  ELSE IF trim(labelOrCode) = <<zh.zong, zh.cang>> THEN main_warehouse
  ELSE unspecified

getWarehouseCodeForLabel_(labelOrCode) ==
  LET s == trim(labelOrCode)
      low == toLowerCase(s)
      hits == { i \in DOMAIN FIX_CODE_TO_NAME : FIX_CODE_TO_NAME[i][2] = s }
      first == CHOOSE i \in hits : \A j \in hits : i <= j
      code == FIX_CODE_TO_NAME[first][1]
  IN IF s = <<>> THEN unspecified
     ELSE IF \A i \in DOMAIN low : IsCodeChar(low[i])
       THEN (IF low = main_warehouse THEN main ELSE low)
     ELSE IF hits # {}
       THEN (IF code = main_warehouse THEN main ELSE code)
     ELSE unspecified

(***************************************************************************)
(* command parser                                                          *)
(***************************************************************************)
\* /^PFX[opt]?\s*(.+)$/ : the capture, or Null when the pattern does not match.
\* The optional character is taken when something is left for (.+) after it,
\* otherwise the match backtracks and (.+) starts at the optional character.
CapturePick(x, sp) == IF sp # <<>> THEN sp ELSE <<x[Len(x)]>>

\* \s*(.+)$ at the head of a non-empty x: the white space is given back when
\* nothing else is left for the capture
CaptureFrom(x) == CapturePick(x, SkipSpace(x))

CaptureRest(r, opt) ==
  IF r = <<>> THEN Null
  ELSE IF r[1] \in opt /\ Tail(r) # <<>> THEN CaptureFrom(Tail(r))
  ELSE CaptureFrom(r)

CaptureAfter(t, pfx, opt) ==
  IF ~StartsWith(t, pfx) THEN Null ELSE CaptureRest(Drop(t, Len(pfx)), opt)

PieceUnits == {zh.ge, zh.san, zh.jian}

OptQtyUnit(r, n, a, units) ==
  IF n > 0 /\ a # <<>> /\ a[1] \in units
    THEN <<Take(r, n), Tail(a)>>
    ELSE <<(<<>>), r>>

OptQtyAt(r, n, units) == OptQtyUnit(r, n, SkipSpace(Drop(r, n)), units)

\* (?:(\d+)\s*UNIT)? at the head of r: <<capture, rest>>, capture <<>> if absent
OptQty(r, units) == OptQtyAt(r, SpanDigit(r), units)

StripOne(x, c) == IF x # <<>> /\ x[1] = c THEN Tail(x) ELSE x

\* <cang><ku>[:<FwColon>=] at the head of p: what follows it, or Null
HintLabel(p) ==
  IF Len(p) >= 3 /\ p[1] = zh.cang /\ p[2] = zh.ku /\ p[3] \in {":", FwColon, "="}
    THEN Drop(p, 3)
    ELSE Null

\* (?:@|<FwLParen>?\(?<cang><ku>[:<FwColon>=]\s*) at the head of r1: what follows it, or Null
HintStart(r1) ==
  IF r1 # <<>> /\ r1[1] = "@" THEN Tail(r1)
  ELSE HintLabel(StripOne(StripOne(r1, FwLParen), "("))

\* ([^)<FwRParen>]+)\)?\s*$ at the head of after, the capture n characters long
HintCapture(after, n) ==
  IF n > 0 /\ SkipSpace(StripOne(Drop(after, n), ")")) = <<>>
    THEN <<TRUE, Take(after, n)>>
    ELSE <<FALSE, (<<>>)>>

HintOf(r1, after) ==
  IF after = Null
    THEN IF r1 = <<>> THEN <<TRUE, (<<>>)>> ELSE <<FALSE, (<<>>)>>
    ELSE HintCapture(after, SpanNotParen(after))

HintAfterSpace(r1) == HintOf(r1, HintStart(r1))

\* (?:\s*(?:@|<FwLParen>?\(?<cang><ku>[:<FwColon>=]\s*)([^)<FwRParen>]+)\)?)?\s*$ at the head of r:
\* <<matched, capture>>
HintAndEnd(r) == HintAfterSpace(SkipSpace(r))

MatchChangeGroups(g2, g3, r4, n4, h) ==
  [ok |-> h[1], g2 |-> g2, g3 |-> g3, g4 |-> Take(r4, n4), g5 |-> h[2]]

MatchChangeTail(g2, g3, r4, n4) ==
  MatchChangeGroups(g2, g3, r4, n4, HintAndEnd(Drop(r4, n4)))

MatchChangeBare(g2, g3, r4) == MatchChangeTail(g2, g3, r4, SpanDigit(r4))

MatchChangePiece(g2, q3) == MatchChangeBare(g2, q3[1], SkipSpace(q3[2]))

MatchChangeBox(q2) == MatchChangePiece(q2[1], OptQty(SkipSpace(q2[2]), PieceUnits))

\* t.match(/^(<chu><ku>|<chu>)\s*(?:(\d+)\s*<xiang>)?\s*(?:(\d+)\s*(?:<ge>|<san>|<jian>))?\s*(?:(\d+))?
\*          (?:\s*(?:@|<FwLParen>?\(?<cang><ku>[:<FwColon>=]\s*)([^)<FwRParen>]+)\)?)?\s*$/)
\* with the prefix of r already removed: whether it matches, and the groups 2..5
MatchChangeRest(r) == MatchChangeBox(OptQty(SkipSpace(r), {zh.xiang}))

NoMatch == [ok |-> FALSE, g2 |-> <<>>, g3 |-> <<>>, g4 |-> <<>>, g5 |-> <<>>]

MatchChangeShort(t, long) ==
  IF long.ok THEN long
  ELSE IF StartsWith(t, <<zh.chu>>) THEN MatchChangeRest(Drop(t, 1))
  ELSE NoMatch

MatchChange(t) ==
  MatchChangeShort(t, IF StartsWith(t, <<zh.chu, zh.ku>>)
                        THEN MatchChangeRest(Drop(t, 2)) ELSE NoMatch)

\* the result of parseCommand: type "none" is null; warehouse <<>> is null
NoCmd == [type |-> "none", arg |-> <<>>, box |-> 0, piece |-> 0, warehouse |-> <<>>]

\* mChange[k] ? parseInt(mChange[k], 10) : 0
GroupInt(g) == IF g # <<>> THEN DigitsValue(g) ELSE 0

\* a slip of the piece quantity: only a labelled quantity counts
PieceOf_LabeledOnly(t, box, pieceLabeled, pieceTail) == pieceLabeled

\* pieceLabeled || pieceTail || (bare number of a unit-less text with box 0)
PieceOf(t, box, pieceLabeled, pieceTail) ==
  IF pieceLabeled # 0 THEN pieceLabeled
  ELSE IF pieceTail # 0 THEN pieceTail
  ELSE IF ~(\E i \in DOMAIN t : t[i] \in {zh.xiang} \cup PieceUnits) /\ HasDigit(t) /\ box = 0
    THEN DigitsValue(OnlyDigits(t))
  ELSE 0

ChangeCommand(t, mChange) ==
  IF mChange.ok
    THEN [NoCmd EXCEPT !.type = "change",
                       !.box = GroupInt(mChange.g2),
                       !.piece = PieceOf(t, GroupInt(mChange.g2), GroupInt(mChange.g3),
                                         GroupInt(mChange.g4)),
                       !.warehouse = trim(mChange.g5)]
    ELSE NoCmd

CaptureCommand(type, m, others) ==
  IF m # Null THEN [NoCmd EXCEPT !.type = type, !.arg = trim(m)] ELSE others

\* a slip of the gate: the hash prefix is missing
CommandGate_NoHash(t) ==
  \E p \in {<<zh.cha>>, <<zh.bian, zh.hao>>, <<zh.tiao, zh.ma>>, <<zh.chu>>, <<zh.cang>>} :
    StartsWith(t, p)

CommandGate(t) ==
  \E p \in {<<zh.cha>>, <<zh.bian, zh.hao>>, <<"#">>, <<zh.tiao, zh.ma>>, <<zh.chu>>, <<zh.cang>>} :
    StartsWith(t, p)

parseTrimmed(t) ==
  IF t = <<>> THEN NoCmd
  ELSE IF t \in {<<"d", "b">>, <<"D", "B">>, <<zh.ban, zh.ben>>} THEN [NoCmd EXCEPT !.type = "db"]
  ELSE IF ~CommandGate(t) THEN NoCmd
  ELSE CaptureCommand("wh_select", CaptureAfter(t, <<zh.cang>>, {zh.ku}),
       CaptureCommand("barcode", CaptureAfter(t, <<zh.tiao, zh.ma>>, {":", FwColon}),
       CaptureCommand("sku", CaptureAfter(t, <<"#">>, {}),
       CaptureCommand("sku", CaptureAfter(t, <<zh.bian, zh.hao>>, {":", FwColon}),
       CaptureCommand("query", CaptureAfter(t, <<zh.cha>>, {zh.xun}),
       ChangeCommand(t, MatchChange(t)))))))

parseCommand(text) == parseTrimmed(trim(text))

(***************************************************************************)
(* cmd_parser.js: the stand-alone parser of out-commands                   *)
(***************************************************************************)
FwComma == "U+FF0C"

\* \w of a regular expression without the u flag: ASCII letters, digits, "_"
IsWordChar(c) == c \in Range(LowerCase) \cup Range(UpperCase) \cup Range(Digits) \cup {"_"}

\* the three replacements of normalizeText_: full-width space and commas become
\* a space, a run of white space becomes one space
RECURSIVE CollapseSpaces(_)
CollapseSpaces(s) ==
  IF s = <<>> THEN <<>>
  ELSE IF IsSpace(s[1]) \/ s[1] \in {",", FwComma}
    THEN IF Len(s) >= 2 /\ (IsSpace(s[2]) \/ s[2] \in {",", FwComma})
           THEN CollapseSpaces(Tail(s))
           ELSE <<" ">> \o CollapseSpaces(Tail(s))
  ELSE <<s[1]>> \o CollapseSpaces(Tail(s))

normalizeText_(s) == trim(CollapseSpaces(s))

\* null is <<>>, the number n is <<n>>.  (The inputs of the model are short,
\* so Number.isSafeInteger never fails.)
parsePositiveInt_(raw) ==
  IF trim(raw) = <<>> \/ SpanDigit(trim(raw)) # Len(trim(raw)) THEN <<>>
  ELSE IF DigitsValue(trim(raw)) <= 0 THEN <<>>
  ELSE <<DigitsValue(trim(raw))>>

\* the unit alternatives of tokenRe (xiang, jian, san, ge, pcs, pc) and its \b,
\* with the i flag, at the start of u: the length matched,
\* 0 when it does not match.  \b holds where exactly one side is a word
\* character: after an ideograph, only before a word character; after pcs or
\* pc, only at the end or before a non-word character.
UnitLen(u) ==
  IF u = <<>> THEN 0
  ELSE IF u[1] \in {zh.xiang} \cup PieceUnits
    THEN IF Len(u) >= 2 /\ IsWordChar(u[2]) THEN 1 ELSE 0
  ELSE IF Len(u) >= 3 /\ toLowerCase(Take(u, 3)) = <<"p", "c", "s">>
          /\ (Len(u) = 3 \/ ~IsWordChar(u[4]))
    THEN 3
  ELSE IF Len(u) >= 2 /\ toLowerCase(Take(u, 2)) = <<"p", "c">>
          /\ (Len(u) = 2 \/ ~IsWordChar(u[3]))
    THEN 2
  ELSE 0

\* tokenRe = /(\d+)\s*(unit)\b/ at the start of s: the length of the
\* match, 0 when it does not match there
TokenLen(s) ==
  IF SpanDigit(s) = 0 THEN 0
  ELSE IF UnitLen(SkipSpace(Drop(s, SpanDigit(s)))) = 0 THEN 0
  ELSE SpanDigit(s) + SpanSpace(Drop(s, SpanDigit(s)))
         + UnitLen(SkipSpace(Drop(s, SpanDigit(s))))

\* the callback of rest.replace(tokenRe, ...) on the token tok, and the token
\* removed from restStripped
TokenAdd(tok, n, acc) ==
  [acc EXCEPT !.any = TRUE,
              !.boxQty = IF n # <<>> /\ tok[Len(tok)] = zh.xiang THEN @ + n[1] ELSE @,
              !.pieceQty = IF n # <<>> /\ tok[Len(tok)] # zh.xiang THEN @ + n[1] ELSE @]

\* a character outside every token: it stays in restStripped unless it is
\* white space
TokenSkip(c, acc) ==
  IF IsSpace(c) THEN acc ELSE [acc EXCEPT !.restStripped = <<c>> \o @]

\* the two global replaces over rest: left to right, a token where tokenRe
\* matches, else one character further
RECURSIVE TokenScan(_)
TokenScan(s) ==
  IF s = <<>> THEN [any |-> FALSE, boxQty |-> 0, pieceQty |-> 0, restStripped |-> <<>>]
  ELSE IF TokenLen(s) > 0
    THEN TokenAdd(Take(s, TokenLen(s)),
                  parsePositiveInt_(Take(s, SpanDigit(s))),
                  TokenScan(Drop(s, TokenLen(s))))
  ELSE TokenSkip(s[1], TokenScan(Tail(s)))

\* mPrefix[2] of text.match(/^(chu ku|chu)\s*(.+)$/i), Null when there is no match
OutPrefixRest(text) ==
  IF StartsWith(text, <<zh.chu, zh.ku>>) /\ SkipSpace(Drop(text, 2)) # <<>>
    THEN SkipSpace(Drop(text, 2))
  ELSE IF StartsWith(text, <<zh.chu>>) /\ SkipSpace(Drop(text, 1)) # <<>>
    THEN SkipSpace(Drop(text, 1))
  ELSE Null

OutError(e) == [ok |-> FALSE, error |-> e]

\* a slip of the verdict: the text left over is not looked at
OutVerdict_IgnoresRest(scan) ==
  IF ~scan.any THEN OutError("no_tokens")
  ELSE IF scan.boxQty <= 0 /\ scan.pieceQty <= 0 THEN OutError("non_positive")
  ELSE [ok |-> TRUE, action |-> "out", boxQty |-> scan.boxQty, pieceQty |-> scan.pieceQty]

\* the verdict of parseOutCommand on what the scan of rest found
OutVerdict(scan) ==
  IF ~scan.any THEN OutError("no_tokens")
  ELSE IF Len(scan.restStripped) > 0 THEN OutError("has_extra_text")
  ELSE IF scan.boxQty <= 0 /\ scan.pieceQty <= 0 THEN OutError("non_positive")
  ELSE [ok |-> TRUE, action |-> "out", boxQty |-> scan.boxQty, pieceQty |-> scan.pieceQty]

\* parseOutCommand after normalizeText_ (the display string `normalized' of
\* the result is left out)
parseOutNormalized(text) ==
  IF text = <<>> THEN OutError("empty")
  ELSE IF OutPrefixRest(text) = Null THEN OutError("no_prefix")
  ELSE IF trim(OutPrefixRest(text)) = <<>> THEN OutError("no_amount")
  ELSE OutVerdict(TokenScan(trim(OutPrefixRest(text))))

parseOutCommand(input) == parseOutNormalized(normalizeText_(input))

(***************************************************************************)
(* postback parser                                                         *)
(***************************************************************************)
\* the segments of s between the separators sep
RECURSIVE SplitOn(_, _)
SplitOn(s, sep) ==
  LET hits == { i \in DOMAIN s : s[i] = sep }
      k == CHOOSE i \in hits : \A j \in hits : i <= j
  IN IF hits = {} THEN <<s>>
     ELSE <<SubSeq(s, 1, k - 1)>> \o SplitOn(Drop(s, k), sep)

\* the characters of the model that encodeURIComponent escapes, each with the
\* hexadecimal escapes of its UTF-8 bytes; letters, digits and - _ . ! ~ * ' ( )
\* are left as they are
PercentCode ==
  (" " :> <<"%", "2", "0">>) @@ ("+" :> <<"%", "2", "B">>) @@ ("&" :> <<"%", "2", "6">>)
    @@ ("=" :> <<"%", "3", "D">>) @@ ("%" :> <<"%", "2", "5">>) @@ ("#" :> <<"%", "2", "3">>)
    @@ ("@" :> <<"%", "4", "0">>)
    @@ (zh.cang :> <<"%", "E", "5", "%", "8", "0", "%", "8", "9">>)

\* a slip of the builder: the text put into the data string as it is
encodeURIComponent_Raw(s) == s

RECURSIVE encodeURIComponent(_)
encodeURIComponent(s) ==
  IF s = <<>> THEN <<>>
  ELSE (IF s[1] \in DOMAIN PercentCode THEN PercentCode[s[1]] ELSE <<s[1]>>)
         \o encodeURIComponent(Tail(s))

\* URLSearchParams: the escapes of a name or value read back as characters
RECURSIVE PercentDecode(_)
PercentDecode(s) ==
  IF s = <<>> THEN <<>>
  ELSE IF s[1] = "%" /\ \E c \in DOMAIN PercentCode : StartsWith(s, PercentCode[c])
    THEN <<CHOOSE c \in DOMAIN PercentCode : StartsWith(s, PercentCode[c])>>
           \o PercentDecode(Drop(s, Len(PercentCode[CHOOSE c \in DOMAIN PercentCode :
                                                      StartsWith(s, PercentCode[c])])))
  ELSE <<s[1]>> \o PercentDecode(Tail(s))

\* the name and the value of one key=value segment (split at the first "=",
\* "+" read as a space, then the escapes decoded)
PairOf(seg) ==
  LET hits == { i \in DOMAIN seg : seg[i] = "=" }
      k == CHOOSE i \in hits : \A j \in hits : i <= j
      plus(x) == PercentDecode([i \in DOMAIN x |-> IF x[i] = "+" THEN " " ELSE x[i]])
  IN IF hits = {} THEN <<plus(seg), (<<>>)>>
     ELSE <<plus(SubSeq(seg, 1, k - 1)), plus(Drop(seg, k))>>

\* new URLSearchParams(s).get(key): the value of the first pair named key, or Null
ParamsGet(s, key) ==
  LET q == IF s # <<>> /\ s[1] = "?" THEN Tail(s) ELSE s
      segs == SplitOn(q, "&")
      hits == { i \in DOMAIN segs : segs[i] # <<>> /\ PairOf(segs[i])[1] = key }
      k == CHOOSE i \in hits : \A j \in hits : i <= j
  IN IF hits = {} THEN Null ELSE PairOf(segs[k])[2]

\* x || dflt for a string x that may be null
StrOr(x, dflt) == IF x = Null \/ x = <<>> THEN dflt ELSE x

\* String(n) of a natural number
RECURSIVE NumberString(_)
NumberString(n) ==
  IF n < 10 THEN <<Digits[n + 1]>>
  ELSE NumberString(n \div 10) \o <<Digits[(n % 10) + 1]>>

\* buildQuickReplyWarehousesForOut_: the data string of the item of warehouse code
OutData(sku, code, outBox, outPiece) ==
  <<"a", "=", "o", "u", "t", "&", "s", "k", "u", "=">> \o encodeURIComponent(sku)
    \o <<"&", "w", "h", "=">> \o encodeURIComponent(code)
    \o <<"&", "b", "o", "x", "=">> \o NumberString(outBox)
    \o <<"&", "p", "i", "e", "c", "e", "=">> \o NumberString(outPiece)

\* the result of parsePostback: type "none" is null
NoPostback == [type |-> "none", sku |-> <<>>, wh |-> <<>>, box |-> 0, piece |-> 0]

parsePostback(data) ==
  LET s == trim(data)
      a == ParamsGet(s, <<"a">>)
      sku == skuKey_(StrOr(ParamsGet(s, <<"s", "k", "u">>), <<>>))
      wh == StrOr(ParamsGet(s, <<"w", "h">>), <<>>)
      box == OrZero(parseInt10(StrOr(ParamsGet(s, <<"b", "o", "x">>), <<"0">>)))
      piece == OrZero(parseInt10(StrOr(ParamsGet(s, <<"p", "i", "e", "c", "e">>), <<"0">>)))
  IN IF s = <<>> THEN NoPostback
     ELSE IF a = <<"w", "h", "_", "s", "e", "l", "e", "c", "t">>
       THEN [NoPostback EXCEPT !.type = "wh_select_postback", !.sku = sku, !.wh = wh]
     ELSE IF a = <<"o", "u", "t">>
       THEN [type |-> "out_postback", sku |-> sku, wh |-> wh, box |-> box, piece |-> piece]
     ELSE NoPostback

(***************************************************************************)
(* live stock from lots                                                    *)
(***************************************************************************)
\* inventory_lots rows of the query
\*   .eq('product_sku', s).in('uom', ['box', 'piece']).gt('qty_left', 0)
\* in the order of the table
RECURSIVE RowsOfSku(_, _)
RowsOfSku(table, s) ==
  IF table = <<>> THEN <<>>
  ELSE LET r == table[1]
       IN IF r.product_sku = s /\ r.uom \in {"box", "piece"} /\ r.qty_left > 0
            THEN <<r>> \o RowsOfSku(Tail(table), s)
            ELSE RowsOfSku(Tail(table), s)

\* the same query with .eq('warehouse_code', code)
RECURSIVE RowsOfSkuWh(_, _, _)
RowsOfSkuWh(table, s, code) ==
  IF table = <<>> THEN <<>>
  ELSE LET r == table[1]
       IN IF r.product_sku = s /\ r.warehouse_code = code
               /\ r.uom \in {"box", "piece"} /\ r.qty_left > 0
            THEN <<r>> \o RowsOfSkuWh(Tail(table), s, code)
            ELSE RowsOfSkuWh(Tail(table), s, code)

\* a slip of the accumulation: piece rows are counted as boxes
RECURSIVE SumRows_AllBoxes(_, _)
SumRows_AllBoxes(rows, upb) ==
  IF rows = <<>> THEN [box |-> 0, piece |-> 0, amount |-> 0]
  ELSE [box |-> SumRows_AllBoxes(Tail(rows), upb).box + rows[1].qty_left,
        piece |-> 0,
        amount |-> SumRows_AllBoxes(Tail(rows), upb).amount
                     + rows[1].qty_left * upb * rows[1].unit_cost_piece]

\* the accumulation loop over rows: box, piece and amount
RECURSIVE SumRows(_, _)
SumRows(rows, upb) ==
  IF rows = <<>> THEN [box |-> 0, piece |-> 0, amount |-> 0]
  ELSE LET acc == SumRows(SubSeq(rows, 1, Len(rows) - 1), upb)
           r == rows[Len(rows)]
       IN IF r.uom = "box"
            THEN [box |-> acc.box + r.qty_left, piece |-> acc.piece,
                  amount |-> acc.amount + r.qty_left * upb * r.unit_cost_piece]
          ELSE IF r.uom = "piece"
            THEN [box |-> acc.box, piece |-> acc.piece + r.qty_left,
                  amount |-> acc.amount + r.qty_left * r.unit_cost_piece]
          ELSE acc

\* the key a row is accumulated under: its warehouse_code, 'unspecified' when
\* there is none, trimmed and in lower case
WhKeyOf(r) == StrOr(toLowerCase(trim(StrOr(r.warehouse_code, unspecified))), unspecified)

\* the warehouse keys of rows in the order of their first row (Map insertion order)
RECURSIVE WhOrder(_)
WhOrder(rows) ==
  IF rows = <<>> THEN <<>>
  ELSE LET before == WhOrder(SubSeq(rows, 1, Len(rows) - 1))
           wh == WhKeyOf(rows[Len(rows)])
       IN IF wh \in Range(before) THEN before ELSE Append(before, wh)

RECURSIVE SelectWh(_, _)
SelectWh(rows, wh) ==
  IF rows = <<>> THEN <<>>
  ELSE IF WhKeyOf(rows[1]) = wh
    THEN <<rows[1]>> \o SelectWh(Tail(rows), wh)
    ELSE SelectWh(Tail(rows), wh)

RECURSIVE KeepStocked(_)
KeepStocked(list) ==
  IF list = <<>> THEN <<>>
  ELSE IF list[1].box > 0 \/ list[1].piece > 0
    THEN <<list[1]>> \o KeepStocked(Tail(list))
    ELSE KeepStocked(Tail(list))

\* getWarehousesStockBySkuFromLots_ on the table content it reads; unitsPerBox is
\* the product's units_per_box (0 when unknown)
getWarehousesStockBySkuFromLots_(table, sku, unitsPerBox) ==
  LET s == skuKey_(sku)
      upb == IF unitsPerBox # 0 THEN unitsPerBox ELSE 1
      rows == RowsOfSku(table, s)
      order == WhOrder(rows)
      entry(wh) == LET acc == SumRows(SelectWh(rows, wh), upb)
                   IN [code |-> wh, box |-> acc.box, piece |-> acc.piece, amount |-> acc.amount]
  IN IF s = <<>> THEN <<>>
     ELSE KeepStocked([i \in DOMAIN order |-> entry(order[i])])

\* getWarehouseSnapshotDetailsFromLots_ on the table content it reads
getWarehouseSnapshotDetailsFromLots_(table, sku, whCode, unitsPerBox) ==
  LET s == skuKey_(sku)
      code == StrOr(toLowerCase(trim(whCode)), unspecified)
      upb == IF unitsPerBox > 0 THEN unitsPerBox ELSE 1
      acc == SumRows(RowsOfSkuWh(table, s, code), upb)
  IN [sku |-> s, code |-> code, box |-> acc.box, piece |-> acc.piece, amount |-> acc.amount]

\* the row of the query
\*   .eq('product_sku', s).eq('warehouse_code', wh).eq('uom', uom).gt('qty_left', 0)
\*   .order('inbound_at', { ascending: false }).limit(1)
\* as a sequence of at most one row
LatestLot(table, s, wh, uom) ==
  LET hits == { i \in DOMAIN table :
                  /\ table[i].product_sku = s /\ table[i].warehouse_code = wh
                  /\ table[i].uom = uom /\ table[i].qty_left > 0 }
  IN IF hits = {} THEN <<>>
     ELSE <<table[CHOOSE i \in hits :
                    \A j \in hits : table[j].inbound_at <= table[i].inbound_at]>>

\* a slip of the cost lookup: the box lot is looked at first
getLatestUnitCostPieceFromLots_BoxFirst(table, sku, warehouseCode, pieceError, boxError) ==
  IF skuKey_(sku) = <<>> THEN <<>>
  ELSE IF ~boxError /\ LatestLot(table, skuKey_(sku), warehouseCode, "box") # <<>>
    THEN <<LatestLot(table, skuKey_(sku), warehouseCode, "box")[1].unit_cost_piece>>
  ELSE IF ~pieceError /\ LatestLot(table, skuKey_(sku), warehouseCode, "piece") # <<>>
    THEN <<LatestLot(table, skuKey_(sku), warehouseCode, "piece")[1].unit_cost_piece>>
  ELSE <<>>

\* getLatestUnitCostPieceFromLots_ on the table content it reads: null is <<>>,
\* the cost n is <<n>>.  pieceError, boxError: the read of the piece lots, of
\* the box lots, came back with an error (which the function passes over).
getLatestUnitCostPieceFromLots_(table, sku, warehouseCode, pieceError, boxError) ==
  LET s == skuKey_(sku)
      wh == StrOr(toLowerCase(trim(warehouseCode)), unspecified)
      pieceRow == LatestLot(table, s, wh, "piece")
      boxRow == LatestLot(table, s, wh, "box")
  IN IF s = <<>> THEN <<>>
     ELSE IF ~pieceError /\ pieceRow # <<>> THEN <<pieceRow[1].unit_cost_piece>>
     ELSE IF ~boxError /\ boxRow # <<>> THEN <<boxRow[1].unit_cost_piece>>
     ELSE <<>>

(***************************************************************************)
(* bounds and inputs                                                       *)
(***************************************************************************)
\* number of webhook events delivered in a run (each runs one handleEvent_)
MaxEvents == 2

\* the clock advances in steps of TickMs up to MaxNow (milliseconds)
TickMs == 2500

MaxNow == 5000

\* the texts given to the parsers: the out prefix and up to MaxTokens pieces
MaxTokens == 3

\* the lot tables given to the stock functions have up to MaxLots rows
MaxLots == 2

\* a silence of 31 minutes, in milliseconds
IdleMs == 1860000

Handlers == 1 .. MaxEvents

OUT_LOCK_MS == 5000

STOCK_LIST_TTL_MS == 3000

skuA == <<"a">>

skuB == <<"b">>

\* the inventory_lots table at start: sku a is stocked in main (2 boxes, 1 piece)
\* and swap (1 box), sku b in withdraw only (2 pieces)
InitLots ==
  << [product_sku |-> skuA, warehouse_code |-> main, uom |-> "box", qty_left |-> 2,
      unit_cost_piece |-> 3, inbound_at |-> 1],
     [product_sku |-> skuA, warehouse_code |-> main, uom |-> "piece", qty_left |-> 1,
      unit_cost_piece |-> 4, inbound_at |-> 2],
     [product_sku |-> skuA, warehouse_code |-> swap, uom |-> "box", qty_left |-> 1,
      unit_cost_piece |-> 3, inbound_at |-> 3],
     [product_sku |-> skuB, warehouse_code |-> withdraw, uom |-> "piece", qty_left |-> 2,
      unit_cost_piece |-> 5, inbound_at |-> 4] >>

\* lot tables of the lookup-select-out conversation: sku a in two warehouses,
\* enough boxes in main, the lot of loose pieces with stock or used up; sku b
\* in main only
FlowLotsOf(boxes, pieces) ==
  << [product_sku |-> skuA, warehouse_code |-> main, uom |-> "box", qty_left |-> boxes,
      unit_cost_piece |-> 3, inbound_at |-> 1],
     [product_sku |-> skuA, warehouse_code |-> main, uom |-> "piece", qty_left |-> pieces,
      unit_cost_piece |-> 4, inbound_at |-> 2],
     [product_sku |-> skuA, warehouse_code |-> swap, uom |-> "box", qty_left |-> 1,
      unit_cost_piece |-> 3, inbound_at |-> 3],
     [product_sku |-> skuB, warehouse_code |-> main, uom |-> "piece", qty_left |-> 2,
      unit_cost_piece |-> 5, inbound_at |-> 4] >>

FlowLots == { FlowLotsOf(boxes, pieces) : boxes \in {3, 4}, pieces \in {0, 7} }

\* the runs of the conversation: as many as its events, and one more
FlowHandlers == 1 .. MaxEvents + 1

\* products.barcode: the SKUs of the products that carry the barcode
ProductsByBarcode(barcode) == IF barcode = <<"1">> THEN <<skuA>> ELSE <<>>

\* products.units_per_box
UnitsPerBoxOf(sku) == IF sku = skuA THEN 6 ELSE 0

\* event sources: a user in a one-to-one chat
Sources == { [userId |-> "u1", groupId |-> "", roomId |-> ""] }

\* the same user writing in a group chat
GroupSource == [userId |-> "u1", groupId |-> "g1", roomId |-> ""]

\* a slip of the key: one key for every conversation
getActorKey_Shared(src) == "unknown"

getActorKey_(src) ==
  IF src.groupId # "" THEN src.groupId
  ELSE IF src.roomId # "" THEN src.roomId
  ELSE IF src.userId # "" THEN src.userId
  ELSE "unknown"

ActorKeys == { getActorKey_(src) : src \in Sources \cup {GroupSource} }

\* message texts delivered by the transport
TxtSkuA == <<"#", "a">>

TxtSkuB == <<zh.bian, zh.hao, " ", "b">>

TxtOut1Box == <<zh.chu, "1", zh.xiang>>

TxtOutNothing == <<zh.chu, zh.ku>>

TxtOut3BoxAtMain == <<zh.chu, " ", "3", zh.xiang, " ", "@", zh.zong, zh.cang>>

TxtQueryA == <<zh.cha, "a">>

TxtDb == <<"d", "b">>

TxtBarcode1 == <<zh.tiao, zh.ma, " ", "1">>

TxtWhMain == <<zh.cang, " ", "m", "a", "i", "n">>

TxtSkuANum == <<zh.bian, zh.hao, " ", "a">>

TxtOut3Box == <<zh.chu, "3", zh.xiang>>

\* a word of cancellation ("<qu><xiao>")
TxtCancel == <<zh.qu, zh.xiao>>

Texts == {"TxtSkuA", "TxtOut1Box", "TxtOut3BoxAtMain", "TxtOutNothing"}

\* postback payloads delivered by the transport
PbOutMain1 == <<"a", "=", "o", "u", "t", "&", "s", "k", "u", "=", "a", "&", "w", "h", "=",
                "m", "a", "i", "n", "&", "b", "o", "x", "=", "1", "&",
                "p", "i", "e", "c", "e", "=", "0">>

PbOutMain1Piece2 == <<"a", "=", "o", "u", "t", "&", "s", "k", "u", "=", "a", "&", "w", "h", "=",
                      "m", "a", "i", "n", "&", "b", "o", "x", "=", "1", "&",
                      "p", "i", "e", "c", "e", "=", "2">>

PbOutNoQty == <<"a", "=", "o", "u", "t", "&", "s", "k", "u", "=", "a", "&", "w", "h", "=",
                "m", "a", "i", "n">>

PbOutNoSku == <<"a", "=", "o", "u", "t", "&", "w", "h", "=", "m", "a", "i", "n", "&",
                "b", "o", "x", "=", "1">>

PbWhSelectSwap == <<"a", "=", "w", "h", "_", "s", "e", "l", "e", "c", "t", "&",
                    "s", "k", "u", "=", "a", "&", "w", "h", "=", "s", "w", "a", "p">>

PbWhSelectSkuB == <<"a", "=", "w", "h", "_", "s", "e", "l", "e", "c", "t", "&",
                    "s", "k", "u", "=", "B", "&", "w", "h", "=", "s", "w", "a", "p">>

PbWhSelectMain == <<"a", "=", "w", "h", "_", "s", "e", "l", "e", "c", "t", "&",
                    "s", "k", "u", "=", "a", "&", "w", "h", "=", "m", "a", "i", "n">>

PbOutNegativeBox == <<"a", "=", "o", "u", "t", "&", "s", "k", "u", "=", "a", "&", "w", "h", "=",
                      "m", "a", "i", "n", "&", "b", "o", "x", "=", "-", "1", "&",
                      "p", "i", "e", "c", "e", "=", "x">>

Payloads == {"PbOutMain1", "PbOutMain1Piece2", "PbOutNoQty", "PbOutNoSku", "PbWhSelectSwap",
             "PbWhSelectSkuB"}

\* the message text / postback payload behind each name an event carries
BodyOf ==
  [TxtSkuA |-> TxtSkuA, TxtSkuB |-> TxtSkuB, TxtCancel |-> TxtCancel, TxtOut1Box |-> TxtOut1Box,
   TxtOut3BoxAtMain |-> TxtOut3BoxAtMain, TxtOutNothing |-> TxtOutNothing,
   PbOutMain1 |-> PbOutMain1, PbOutMain1Piece2 |-> PbOutMain1Piece2,
   PbOutNoQty |-> PbOutNoQty, PbOutNoSku |-> PbOutNoSku,
   PbWhSelectSwap |-> PbWhSelectSwap, PbWhSelectSkuB |-> PbWhSelectSkuB,
   PbOutNegativeBox |-> PbOutNegativeBox, TxtQueryA |-> TxtQueryA, TxtDb |-> TxtDb, TxtBarcode1 |-> TxtBarcode1,
   TxtWhMain |-> TxtWhMain, TxtSkuANum |-> TxtSkuANum, TxtOut3Box |-> TxtOut3Box, PbWhSelectMain |-> PbWhSelectMain,
   none |-> <<>>]

\* the webhook event identifier of the h-th fresh event
EventIdOf(h) == <<"e", Digits[h + 1]>>

\* an event names its body (BodyOf): message.text of a text message,
\* postback.data of a postback
NoEvent == [type |-> "none", source |-> [userId |-> "", groupId |-> "", roomId |-> ""],
            eventId |-> <<>>, body |-> "none"]

message_text(ev) == IF ev.type = "message" THEN BodyOf[ev.body] ELSE <<>>

postback_data(ev) == IF ev.type = "postback" THEN BodyOf[ev.body] ELSE <<>>

\* the events the transport can deliver as the h-th fresh event, with the
\* identifiers ids, the message texts txts and the postback payloads pbs
EventsFrom(srcs, ids, txts, pbs) ==
  { [type |-> "message", source |-> src, eventId |-> id, body |-> t] :
      src \in srcs, id \in ids, t \in txts }
  \cup
  { [type |-> "postback", source |-> src, eventId |-> id, body |-> d] :
      src \in srcs, id \in ids, d \in pbs }

EventsOf(ids, txts, pbs) == EventsFrom(Sources, ids, txts, pbs)

\* the pieces the parser inputs are made of: quantities with each unit, a bare
\* number, a zero quantity, white space, a foreign letter and the second
\* character of the long prefix
OutPieces ==
  { <<"2", zh.xiang>>, <<"2", zh.jian>>, <<"1", zh.san>>, <<"4", zh.ge>>,
    <<"1", "p", "c", "s">>, <<"2", "P", "C">>, <<"5">>, <<"0", zh.xiang>>,
    <<" ">>, <<"x">>, <<zh.ku>> }

RECURSIVE PiecesUpTo(_)
PiecesUpTo(n) ==
  IF n = 0 THEN {<<>>}
  ELSE PiecesUpTo(n - 1) \cup { t \o p : t \in PiecesUpTo(n - 1), p \in OutPieces }

OutTexts == { <<zh.chu>> \o t : t \in PiecesUpTo(MaxTokens) }

\* postback payloads as the quick-reply builders and a client may send them:
\* each field present or not (Null), the numeric fields also malformed
PostbackFields ==
  [a : {Null, <<"o", "u", "t">>, <<"w", "h", "_", "s", "e", "l", "e", "c", "t">>, <<"x">>},
   sku : {Null, <<"a">>, <<" ", "B">>},
   wh : {Null, <<"m", "a", "i", "n">>},
   box : {Null, <<>>, <<"2">>, <<"x">>, <<"2", "x">>, <<"-", "1">>},
   piece : {Null, <<"0">>, <<"1", "2">>}]

\* one key=value segment of the payload, a space written "+"; none for an
\* absent field
PostbackSegment(key, v) ==
  IF v = Null THEN <<>>
  ELSE << key \o <<"=">> \o [i \in DOMAIN v |-> IF v[i] = " " THEN "+" ELSE v[i]] >>

RECURSIVE JoinAmp(_)
JoinAmp(segs) ==
  IF segs = <<>> THEN <<>>
  ELSE IF Len(segs) = 1 THEN segs[1]
  ELSE segs[1] \o <<"&">> \o JoinAmp(Tail(segs))

\* the data string of a postback with the fields f
PostbackData(f) ==
  JoinAmp(PostbackSegment(<<"a">>, f.a) \o PostbackSegment(<<"s", "k", "u">>, f.sku)
            \o PostbackSegment(<<"w", "h">>, f.wh) \o PostbackSegment(<<"b", "o", "x">>, f.box)
            \o PostbackSegment(<<"p", "i", "e", "c", "e">>, f.piece))

\* a call of fn on arg that has not run yet
Call(fn, arg) == [fn |-> fn, arg |-> arg, done |-> FALSE, res |-> <<>>]

\* codes, labels and other texts given to the warehouse resolver
WhInputs ==
  { <<>>, <<" ">>, main, <<"M", "a", "i", "n">>, <<" ">> \o main \o <<" ">>, main_warehouse,
    <<"M", "A", "I", "N", "_", "W", "A", "R", "E", "H", "O", "U", "S", "E">>,
    swap, withdraw, unspecified, <<"A", "1", "_", "b">>, <<"x", " ", "y">>, <<"x", zh.cang>>,
    <<zh.zong, zh.cang>>, <<zh.zong, zh.cang, " ">>, <<zh.jia, zh.huan, zh.pin>>,
    <<zh.che, zh.tai>>, <<zh.wei, zh.zhi, zh.ding>>, <<zh.zong>> }

\* the rows a lot table is made of: sku a in two warehouses, in boxes or
\* pieces, used up or not, and a row of another sku
LotChoices ==
  { [product_sku |-> skuA, warehouse_code |-> w, uom |-> u, qty_left |-> q] :
      w \in {main, swap}, u \in {"box", "piece"}, q \in {0, 2} }
    \cup { [product_sku |-> skuB, warehouse_code |-> main, uom |-> "piece", qty_left |-> 1] }

RECURSIVE LotRows(_)
LotRows(n) ==
  IF n = 0 THEN {<<>>}
  ELSE LotRows(n - 1) \cup { t \o <<c>> : t \in LotRows(n - 1), c \in LotChoices }

\* the rows with a cost each and opened one after the other, the first row the
\* newest or the oldest
Opened(rows, newestFirst) ==
  [i \in DOMAIN rows |->
     [product_sku |-> rows[i].product_sku, warehouse_code |-> rows[i].warehouse_code,
      uom |-> rows[i].uom, qty_left |-> rows[i].qty_left, unit_cost_piece |-> i + 2,
      inbound_at |-> IF newestFirst THEN Len(rows) + 1 - i ELSE i]]

LotTables == { Opened(rows, nf) : rows \in LotRows(MaxLots), nf \in BOOLEAN }

\* lot tables whose warehouse_code is as it was written: missing, in upper
\* case or with a space around it
RawLotChoices ==
  { [product_sku |-> skuA, warehouse_code |-> w, uom |-> u, qty_left |-> 2] :
      w \in {main, <<"M", "a", "i", "n">>, <<"m", "a", "i", "n", " ">>, <<>>},
      u \in {"box", "piece"} }

RawLotTables ==
  { Opened(<<c>>, TRUE) : c \in RawLotChoices }
    \cup { Opened(<<c, d>>, TRUE) : c \in RawLotChoices, d \in RawLotChoices }

\* texts given to parseCommand: a head (a keyword, a command prefix with or
\* without its optional character, or neither) and what follows it
CommandHeads ==
  { <<>>, <<"d", "b">>, <<"D", "B">>, <<"D", "b">>, <<zh.ban, zh.ben>>, <<zh.cang>>,
    <<zh.cang, zh.ku>>, <<zh.tiao, zh.ma>>, <<zh.tiao, zh.ma, ":">>, <<zh.tiao>>, <<"#">>,
    <<zh.bian, zh.hao>>, <<zh.bian, zh.hao, FwColon>>, <<zh.cha>>, <<zh.cha, zh.xun>>,
    <<zh.chu>>, <<zh.chu, zh.ku>>, <<"x">> }

CommandTails ==
  { <<>>, <<"a">>, <<" ", "a", " ">>, <<"1", zh.xiang>>, <<"#", "a">>, <<zh.chu, "1">>,
    <<zh.cang, "x">>, <<zh.cha, "a">>, <<"d", "b">> }

CommandTexts == { h \o t : h \in CommandHeads, t \in CommandTails }

\* the events safeReplyText_ answers: with or without a reply token, with or
\* without an address to push to
ReplyEvents == [replyToken : BOOLEAN, to : {"", "u1"}]

\* SKUs as getLastSku_ returns them (trimmed, lower case), with the characters
\* a data string gives a meaning to; warehouse codes as the stock list has them
PromptSkus ==
  { <<"a">>, <<"a", " ", "b">>, <<"a", "+", "b">>, <<"a", "&", "b", "=", "1">>, <<"5", "%">>,
    <<"%", "2", "0">>, <<"#", "1">>, <<zh.cang, "-", "1">>, <<"a", "@", "b">> }

PromptCodes == { main, main_warehouse, swap, unspecified, <<"x", " ", "y">>, <<zh.cang>> }

PromptQuantities == {0, 1, 12, 100}

\* the calls examined on their own
FnCalls ==
  { Call("parsePostback", [fields |-> f, data |-> PostbackData(f)]) : f \in PostbackFields }
    \cup { Call(fn, [text |-> t]) : fn \in {"resolveWarehouseLabel_", "getWarehouseCodeForLabel_"},
                         t \in WhInputs }
    \cup { Call("parseCommand", [text |-> t]) : t \in CommandTexts }
    \cup { Call("buildQuickReplyWarehousesForOut_",
                 [sku |-> k, code |-> c, outBox |-> b, outPiece |-> q]) :
             k \in PromptSkus, c \in PromptCodes, b \in PromptQuantities,
             q \in PromptQuantities }
    \cup { [Call("safeReplyText_", ev) EXCEPT !.res = [pc |-> "reply", reply |-> "none",
                                                       push |-> "none"]] :
             ev \in ReplyEvents }
    \cup { Call("getWarehousesStockBySkuFromLots_", [table |-> t, sku |-> skuA, upb |-> u]) :
             t \in LotTables, u \in {0, 6} }
    \cup { Call("getWarehouseSnapshotDetailsFromLots_",
                 [table |-> t, sku |-> skuA, upb |-> u, whCode |-> c]) :
             t \in LotTables \cup RawLotTables, u \in {0, 6},
             c \in {main, swap, unspecified} }
    \cup { Call("getLatestUnitCostPieceFromLots_", [table |-> t, sku |-> skuA, wh |-> main]) :
             t \in LotTables }

\* every event carries its identifier
FreshEvents(h) == EventsOf({EventIdOf(h)}, Texts, Payloads)

\* replay scenarios: an event identifier may be missing
ReplayEvents(h) ==
  EventsOf({EventIdOf(h), <<>>}, {}, {"PbOutMain1", "PbWhSelectSwap"})

(***************************************************************************)
(* state                                                                   *)
(***************************************************************************)
VARIABLES
  now,                \* Date.now()
  line_event_dedup,   \* the durable dedup table: the event ids recorded
  inventory_lots,     \* the lot table of the ledger
  LAST_SKU_BY_ACTOR,
  LAST_WH_BY_ACTOR,
  OUT_LOCK,
  STOCK_LIST_CACHE,   \* the cached listing of the SKUs in stock
  hs,                 \* the runs of handleEvent_: position and local variables
  parse               \* the function examined on its own: its input and its results

vars == <<now, line_event_dedup, inventory_lots, LAST_SKU_BY_ACTOR, LAST_WH_BY_ACTOR,
          OUT_LOCK, STOCK_LIST_CACHE, hs, parse>>

NoSnap == [box |-> -1, piece |-> -1]

\* STOCK_LIST_CACHE without the entry of the group and business day
NoList == [cached |-> FALSE, ts |-> 0, rows |-> <<>>]

Idle == [pc |-> "idle", ev |-> NoEvent, dd |-> "none", kind |-> "none", hint |-> <<>>,
         sku |-> <<>>, keyword |-> <<>>,
         wh |-> <<>>, outBox |-> 0, outPiece |-> 0, before |-> NoSnap, shown |-> NoSnap,
         reply |-> "none", lockAt |-> -1, rpc |-> "none", gas |-> "none", ack |-> FALSE]

\* a text no parser has read yet
Unparsed(text) ==
  [text |-> text, out |-> OutError("not_run"), cmd |-> [NoCmd EXCEPT !.type = "not_run"]]

Init ==
  /\ now = 0
  /\ line_event_dedup = {}
  /\ inventory_lots = InitLots
  /\ LAST_SKU_BY_ACTOR = [k \in ActorKeys |-> <<>>]
  /\ LAST_WH_BY_ACTOR = [k \in ActorKeys |-> <<>>]
  /\ OUT_LOCK = [k \in ActorKeys |-> 0]
  /\ STOCK_LIST_CACHE = NoList
  /\ hs = [h \in Handlers |-> Idle]
  /\ parse = Unparsed(<<>>)

\* the parsers alone: a text of the bounded set is given to both
InitParse ==
  /\ now = 0
  /\ line_event_dedup = {}
  /\ inventory_lots = InitLots
  /\ LAST_SKU_BY_ACTOR = [k \in ActorKeys |-> <<>>]
  /\ LAST_WH_BY_ACTOR = [k \in ActorKeys |-> <<>>]
  /\ OUT_LOCK = [k \in ActorKeys |-> 0]
  /\ STOCK_LIST_CACHE = NoList
  /\ hs = [h \in Handlers |-> Idle]
  /\ \E text \in OutTexts : parse = Unparsed(text)

\* the lookup-select-out conversation
InitFlow ==
  /\ now = 0
  /\ line_event_dedup = {}
  /\ inventory_lots \in FlowLots
  /\ LAST_SKU_BY_ACTOR = [k \in ActorKeys |-> <<>>]
  /\ LAST_WH_BY_ACTOR = [k \in ActorKeys |-> <<>>]
  /\ OUT_LOCK = [k \in ActorKeys |-> 0]
  /\ STOCK_LIST_CACHE = NoList
  /\ hs = [h \in FlowHandlers |-> Idle]
  /\ parse = Unparsed(<<>>)

\* one function on its own: a call of the bounded set
InitFns ==
  /\ now = 0
  /\ line_event_dedup = {}
  /\ inventory_lots = InitLots
  /\ LAST_SKU_BY_ACTOR = [k \in ActorKeys |-> <<>>]
  /\ LAST_WH_BY_ACTOR = [k \in ActorKeys |-> <<>>]
  /\ OUT_LOCK = [k \in ActorKeys |-> 0]
  /\ STOCK_LIST_CACHE = NoList
  /\ hs = [h \in Handlers |-> Idle]
  /\ parse \in FnCalls

(***************************************************************************)
(* caches and the outbound lock                                            *)
(***************************************************************************)
setLastSku_(m, actorKey, sku) ==
  IF actorKey = "" THEN m ELSE [m EXCEPT ![actorKey] = skuKey_(sku)]

getLastSku_(m, actorKey) == skuKey_(m[actorKey])

setLastWh_(m, actorKey, whCode) ==
  IF actorKey = "" THEN m
  ELSE [m EXCEPT ![actorKey] = StrOr(toLowerCase(trim(whCode)), unspecified)]

\* a slip of the lookup: the last-used warehouse forgotten
getLastWh_None(m, actorKey) == <<>>

getLastWh_(m, actorKey) == toLowerCase(trim(m[actorKey]))

\* slips of the lock: the expiry compared the wrong way round; the lock taken
\* for twice the time
isOutLocked_Reversed(lock, actorKey, t) == t > lock[actorKey] + OUT_LOCK_MS

setOutLock_Twice(lock, actorKey, t) == [lock EXCEPT ![actorKey] = t + 2 * OUT_LOCK_MS]

isOutLocked_(lock, actorKey, t) == t < lock[actorKey]

setOutLock_(lock, actorKey, t) == [lock EXCEPT ![actorKey] = t + OUT_LOCK_MS]

\* getTodayStockRowsFromLots_: the cached listing is used while it is fresh
ListFresh(c, t) == c.cached /\ t - c.ts < STOCK_LIST_TTL_MS

\* getTodayStockRowsFromLots_: the SKUs with stock, each once, from the lots
RECURSIVE StockedSkus(_, _)
StockedSkus(table, seen) ==
  IF table = <<>> THEN <<>>
  ELSE IF skuKey_(table[1].product_sku) # <<>> /\ table[1].qty_left > 0
          /\ skuKey_(table[1].product_sku) \notin seen
    THEN <<skuKey_(table[1].product_sku)>>
           \o StockedSkus(Tail(table), seen \cup {skuKey_(table[1].product_sku)})
  ELSE StockedSkus(Tail(table), seen)

\* String.prototype.includes
Includes(s, kw) == \E i \in 0 .. Len(s) - Len(kw) : SubSeq(s, i + 1, i + Len(kw)) = kw

\* searchInTodayStock_ over the listing rows: the SKUs that contain the keyword
searchInTodayStock_(rows, keywordRaw) ==
  IF trim(keywordRaw) = <<>> THEN <<>>
  ELSE SelectSeq(rows, LAMBDA sku : Includes(toLowerCase(sku), toLowerCase(trim(keywordRaw))))

(***************************************************************************)
(* the ledger collaborator (fifo_out_and_log), at its boundary             *)
(***************************************************************************)
\* oldest lot first: take qty from the lots of (sku, wh, uom)
RECURSIVE ConsumeFifo(_, _, _, _, _)
ConsumeFifo(table, sku, wh, uom, qty) ==
  IF table = <<>> THEN <<>>
  ELSE LET r == table[1]
           mine == r.product_sku = sku /\ r.warehouse_code = wh /\ r.uom = uom
           take == IF mine THEN (IF r.qty_left < qty THEN r.qty_left ELSE qty) ELSE 0
       IN <<[r EXCEPT !.qty_left = @ - take]>>
            \o ConsumeFifo(Tail(table), sku, wh, uom, qty - take)

\* the ledger re-validates the quantities before it mutates
LedgerAccepts(table, sku, wh, box, piece) ==
  LET d == getWarehouseSnapshotDetailsFromLots_(table, sku, wh, 0)
  IN box >= 0 /\ piece >= 0 /\ box <= d.box /\ piece <= d.piece

LedgerApply(table, sku, wh, box, piece) ==
  ConsumeFifo(ConsumeFifo(table, sku, wh, "box", box), sku, wh, "piece", piece)

(***************************************************************************)
(* decisions of the handlers                                               *)
(***************************************************************************)
\* slips of acquireEventDedup_: every event let through; the conflict code not
\* recognised; any error drops the event
acquireEventDedup_LetAll(eventId, errCode) == TRUE

acquireEventDedup_WrongCode(eventId, errCode) ==
  IF trim(eventId) = <<>> THEN TRUE
  ELSE IF errCode = "none" THEN TRUE
  ELSE IF errCode = "23503" THEN FALSE
  ELSE TRUE

acquireEventDedup_FailClosed(eventId, errCode) ==
  IF trim(eventId) = <<>> THEN TRUE ELSE errCode = "none"

\* the outcome of the dedup insert: errCode "none" (inserted), "23505" (unique
\* violation) or "other" (any other error)
acquireEventDedup_(eventId, errCode) ==
  IF trim(eventId) = <<>> THEN TRUE
  ELSE IF errCode = "none" THEN TRUE
  ELSE IF errCode = "23505" THEN FALSE
  ELSE TRUE

\* a slip of the pre-check: only the box quantity is compared
Insufficient_BoxOnly(outBox, outPiece, d) == outBox > 0 /\ d.box < outBox

\* the pre-check of an outbound request against the snapshot d
Insufficient(outBox, outPiece, d) ==
  (outBox > 0 /\ d.box < outBox) \/ (outPiece > 0 /\ d.piece < outPiece)

\* a slip of the resolution: the last-used warehouse taken without looking it
\* up in the stocked list
ResolveOutWarehouse_NoStockCheck(hint, lastWh, whList) ==
  IF hint # <<>> THEN getWarehouseCodeForLabel_(hint)
  ELSE IF lastWh # <<>> THEN lastWh
  ELSE IF Len(whList) >= 2 THEN Null
  ELSE whList[1].code

\* warehouse of a text out-command: the code, or Null when the user must choose
ResolveOutWarehouse(hint, lastWh, whList) ==
  LET stocked == { whList[i].code : i \in DOMAIN whList }
      chosenWhCode == IF hint # <<>> THEN getWarehouseCodeForLabel_(hint)
                      ELSE IF lastWh # <<>> /\ lastWh \in stocked THEN lastWh
                      ELSE Null
  IN IF chosenWhCode # Null THEN chosenWhCode
     ELSE IF Len(whList) >= 2 THEN Null
     ELSE whList[1].code

\* the stock figures of a reply built from the snapshot d
Figures(d) == [box |-> d.box, piece |-> d.piece]

(***************************************************************************)
(* actions                                                                 *)
(***************************************************************************)
Actor(h) == getActorKey_(hs[h].ev.source)

\* the run ends its turn with the reply r ("none": no reply at all)
Ends(st, r) == [st EXCEPT !.pc = "done", !.reply = r]

Caches == <<LAST_SKU_BY_ACTOR, LAST_WH_BY_ACTOR, OUT_LOCK>>

\* a slip of the route: handleEvent_ started before the status was sent
Webhook_HandleFirst(ev) == [Idle EXCEPT !.pc = "dedup", !.ev = ev]

\* the route: res.sendStatus(200), then handleEvent_(ev) runs to its first await
Webhook(ev) == [Idle EXCEPT !.ack = TRUE, !.pc = "dedup", !.ev = ev]

\* POST /webhook: the h-th event, one of events, arrives and handleEvent_ starts
DeliverOf(h, events) ==
  /\ hs[h].pc = "idle"
  /\ \A g \in Handlers : g < h => hs[g].pc # "idle"
  /\ \E ev \in events : hs' = [hs EXCEPT ![h] = Webhook(ev)]
  /\ UNCHANGED <<parse, STOCK_LIST_CACHE, now, line_event_dedup, inventory_lots, Caches>>

Deliver(h) == DeliverOf(h, FreshEvents(h))

\* conversation scenarios: the events that set up or cancel the context of an
\* actor, and, after the long silence, the out-command alone
DeliverContext(h) ==
  DeliverOf(h, IF now < IdleMs
                 THEN EventsOf({EventIdOf(h)}, {"TxtSkuA", "TxtCancel", "TxtOut1Box"},
                               {"PbWhSelectSwap"})
                 ELSE EventsOf({EventIdOf(h)}, {"TxtOut1Box"}, {}))

\* two conversations: the one-to-one chat and the group
DeliverActors(h) ==
  DeliverOf(h, EventsFrom(Sources \cup {GroupSource}, {EventIdOf(h)},
                          {"TxtSkuA", "TxtOut1Box"}, {"PbOutMain1", "PbWhSelectSwap"}))

\* one conversation, each event sent after the answer to the one before: a SKU
\* lookup, the tap on main, then the out-command of three boxes (and again)
DeliverFlow(h) ==
  /\ \A g \in FlowHandlers : g < h => hs[g].pc = "done"
  /\ DeliverOf(h, IF h = 1 THEN EventsOf({EventIdOf(h)}, {"TxtSkuA", "TxtSkuANum"}, {})
                  ELSE IF h = 2 THEN EventsOf({EventIdOf(h)}, {}, {"PbWhSelectMain"})
                  ELSE EventsOf({EventIdOf(h)}, {"TxtOut3Box"}, {}))

\* a listing query, an out-request, then out-requests of the other
\* conversation and queries again
DeliverListing(h) ==
  DeliverOf(h, IF h = 1 THEN EventsOf({EventIdOf(h)}, {"TxtQueryA"}, {})
               ELSE IF h = 2 THEN EventsOf({EventIdOf(h)}, {}, {"PbOutMain1"})
               ELSE EventsOf({EventIdOf(h)}, {"TxtQueryA"}, {})
                      \cup EventsFrom({GroupSource}, {EventIdOf(h)}, {}, {"PbOutMain1"}))

\* an out-request, then the other commands of the same conversation
DeliverOthers(h) ==
  DeliverOf(h, IF h = 1 THEN EventsOf({EventIdOf(h)}, {"TxtOut1Box"}, {"PbOutMain1"})
               ELSE EventsOf({EventIdOf(h)},
                             {"TxtDb", "TxtQueryA", "TxtBarcode1", "TxtSkuB", "TxtWhMain"},
                             {"PbWhSelectSwap"}))

\* one conversation, each event sent after the answer to the one before: a SKU
\* lookup, a text out-command with or without hint, then the tap on main
DeliverPrompt(h) ==
  /\ \A g \in FlowHandlers : g < h => hs[g].pc = "done"
  /\ DeliverOf(h, IF h = 1 THEN EventsOf({EventIdOf(h)}, {"TxtSkuA", "TxtSkuANum"}, {})
                  ELSE IF h = 2 THEN EventsOf({EventIdOf(h)},
                                              {"TxtOut1Box", "TxtOut3BoxAtMain"}, {})
                  ELSE EventsOf({EventIdOf(h)}, {}, {"PbOutMain1"}))

\* out-requests as texts, as the taps the bot offers and as payloads of a
\* client's own making
DeliverPayloads(h) ==
  DeliverOf(h, EventsOf({EventIdOf(h)}, {"TxtSkuA", "TxtOut1Box", "TxtOut3BoxAtMain"},
                        {"PbOutMain1", "PbOutMain1Piece2", "PbOutNegativeBox"}))

\* one conversation, each event sent after the answer to the one before: the
\* lookup of sku b, the lookup of sku a, then out-commands without hint
DeliverSwitch(h) ==
  /\ \A g \in FlowHandlers : g < h => hs[g].pc = "done"
  /\ DeliverOf(h, IF h = 1 THEN EventsOf({EventIdOf(h)}, {"TxtSkuB"}, {})
                  ELSE IF h = 2 THEN EventsOf({EventIdOf(h)}, {"TxtSkuA", "TxtSkuANum"}, {})
                  ELSE EventsOf({EventIdOf(h)}, {"TxtOut1Box", "TxtOut3Box"}, {}))

DeliverReplayable(h) == DeliverOf(h, ReplayEvents(h))

\* the transport delivers an earlier event again (same identifier, same content)
Redeliver(h) ==
  /\ hs[h].pc = "idle"
  /\ \A g \in Handlers : g < h => hs[g].pc # "idle"
  /\ \E g \in Handlers :
       /\ g < h
       /\ hs' = [hs EXCEPT ![h] = Webhook(hs[g].ev)]
  /\ UNCHANGED <<parse, STOCK_LIST_CACHE, now, line_event_dedup, inventory_lots, Caches>>

\* handleCommandMessage_, type 'change': up to the first stock read
StartChange(h, st, parsed) ==
  LET actorKey == Actor(h)
      outBox == parsed.box
      outPiece == parsed.piece
      sku == getLastSku_(LAST_SKU_BY_ACTOR, actorKey)
      st1 == [st EXCEPT !.kind = "out_text", !.outBox = outBox, !.outPiece = outPiece,
                        !.hint = parsed.warehouse]
  IN IF outBox = 0 /\ outPiece = 0
       THEN hs' = [hs EXCEPT ![h] = Ends(st1, "format_hint")] /\ UNCHANGED Caches
     ELSE IF isOutLocked_(OUT_LOCK, actorKey, now)
       THEN hs' = [hs EXCEPT ![h] = Ends(st1, "retry_shortly")] /\ UNCHANGED Caches
     ELSE /\ OUT_LOCK' = setOutLock_(OUT_LOCK, actorKey, now)
          /\ UNCHANGED <<LAST_SKU_BY_ACTOR, LAST_WH_BY_ACTOR>>
          /\ hs' = [hs EXCEPT ![h] =
                      IF sku = <<>>
                        THEN Ends([st1 EXCEPT !.lockAt = now], "select_sku_first")
                        ELSE [st1 EXCEPT !.pc = "whlist", !.sku = sku, !.lockAt = now]]

\* handleSkuFlow_: up to the stock read
StartSkuFlow(h, st, sku) ==
  LET s == skuKey_(sku)
  IN IF s = <<>>
       THEN hs' = [hs EXCEPT ![h] = Ends([st EXCEPT !.kind = "sku"], "none")]
            /\ UNCHANGED Caches
       ELSE /\ LAST_SKU_BY_ACTOR' = setLastSku_(LAST_SKU_BY_ACTOR, Actor(h), s)
            /\ UNCHANGED <<LAST_WH_BY_ACTOR, OUT_LOCK>>
            /\ hs' = [hs EXCEPT ![h] = [st EXCEPT !.kind = "sku", !.pc = "sku_whlist", !.sku = s]]

\* a slip of the warehouse selection: refused while the outbound lock is held
StartWhSelect_Locked(h, st, parsed) ==
  IF isOutLocked_(OUT_LOCK, Actor(h), now)
    THEN hs' = [hs EXCEPT ![h] = Ends([st EXCEPT !.kind = "wh_select"], "retry_shortly")]
         /\ UNCHANGED Caches
    ELSE /\ LAST_WH_BY_ACTOR' = setLastWh_(LAST_WH_BY_ACTOR, Actor(h),
                                            getWarehouseCodeForLabel_(parsed.arg))
         /\ UNCHANGED <<LAST_SKU_BY_ACTOR, OUT_LOCK>>
         /\ hs' = [hs EXCEPT ![h] = [st EXCEPT !.kind = "wh_select", !.pc = "snap",
                                               !.sku = getLastSku_(LAST_SKU_BY_ACTOR, Actor(h)),
                                               !.wh = getWarehouseCodeForLabel_(parsed.arg)]]

\* handleCommandMessage_, type 'wh_select': up to the stock read
StartWhSelect(h, st, parsed) ==
  LET sku == getLastSku_(LAST_SKU_BY_ACTOR, Actor(h))
      whCode == getWarehouseCodeForLabel_(parsed.arg)
      st1 == [st EXCEPT !.kind = "wh_select"]
  IN IF sku = <<>>
       THEN hs' = [hs EXCEPT ![h] = Ends(st1, "select_sku_first_wh")] /\ UNCHANGED Caches
       ELSE /\ LAST_WH_BY_ACTOR' = setLastWh_(LAST_WH_BY_ACTOR, Actor(h), whCode)
            /\ UNCHANGED <<LAST_SKU_BY_ACTOR, OUT_LOCK>>
            /\ hs' = [hs EXCEPT ![h] = [st1 EXCEPT !.pc = "snap", !.sku = sku, !.wh = whCode]]

\* handleCommandMessage_, type 'barcode': up to the read of the products;
\* lookupProductsByBarcode_ returns at once for an empty barcode
StartBarcode(h, st, parsed) ==
  /\ hs' = [hs EXCEPT ![h] =
              IF trim(parsed.arg) = <<>>
                THEN Ends([st EXCEPT !.kind = "barcode"], "no_barcode")
                ELSE [st EXCEPT !.kind = "barcode", !.keyword = trim(parsed.arg),
                                !.pc = "barcode"]]
  /\ UNCHANGED Caches

\* handleCommandMessage_, type 'query': after searchInTodayStock_ returned list
QueryAnswer(h, st, list) ==
  IF list = <<>>
    THEN hs' = [hs EXCEPT ![h] = Ends(st, "no_query_stock")] /\ UNCHANGED Caches
  ELSE IF Len(list) = 1 THEN StartSkuFlow(h, st, list[1])
  ELSE hs' = [hs EXCEPT ![h] = Ends(st, "product_list")] /\ UNCHANGED Caches

\* handleCommandMessage_, type 'query': up to the read of the lots, which a
\* fresh listing spares
StartQuery(h, st, parsed) ==
  LET st1 == [st EXCEPT !.kind = "query", !.keyword = parsed.arg]
  IN IF trim(parsed.arg) = <<>> THEN QueryAnswer(h, st1, <<>>)
     ELSE IF ListFresh(STOCK_LIST_CACHE, now)
       THEN QueryAnswer(h, st1, searchInTodayStock_(STOCK_LIST_CACHE.rows, parsed.arg))
     ELSE hs' = [hs EXCEPT ![h] = [st1 EXCEPT !.pc = "query"]] /\ UNCHANGED Caches

\* handleCommandMessage_: dispatch on the parsed command
StartCommand(h, st, parsed) ==
  IF parsed.type = "db"
    THEN hs' = [hs EXCEPT ![h] = Ends([st EXCEPT !.kind = "db"], "version")]
         /\ UNCHANGED Caches
  ELSE IF parsed.type = "query" THEN StartQuery(h, st, parsed)
  ELSE IF parsed.type = "barcode" THEN StartBarcode(h, st, parsed)
  ELSE IF parsed.type = "sku" THEN StartSkuFlow(h, st, parsed.arg)
  ELSE IF parsed.type = "wh_select" THEN StartWhSelect(h, st, parsed)
  ELSE IF parsed.type = "change" THEN StartChange(h, st, parsed)
  ELSE hs' = [hs EXCEPT ![h] = Ends(st, "none")] /\ UNCHANGED Caches

\* handlePostback_ from the decoded payload pb: up to the first stock read
StartPostbackOf(h, st, pb) ==
  LET actorKey == Actor(h)
      sku == StrOr(pb.sku, getLastSku_(LAST_SKU_BY_ACTOR, actorKey))
      whCode == getWarehouseCodeForLabel_(pb.wh)
      stW == [st EXCEPT !.kind = "wh_select_pb"]
      stO == [st EXCEPT !.kind = "out_pb", !.outBox = pb.box, !.outPiece = pb.piece]
  IN IF pb.type = "wh_select_postback"
       THEN IF sku = <<>>
              THEN hs' = [hs EXCEPT ![h] = Ends(stW, "select_sku_first_wh")]
                   /\ UNCHANGED Caches
              ELSE /\ LAST_SKU_BY_ACTOR' = setLastSku_(LAST_SKU_BY_ACTOR, actorKey, sku)
                   /\ LAST_WH_BY_ACTOR' = setLastWh_(LAST_WH_BY_ACTOR, actorKey, whCode)
                   /\ UNCHANGED OUT_LOCK
                   /\ hs' = [hs EXCEPT ![h] = [stW EXCEPT !.pc = "snap", !.sku = sku,
                                                          !.wh = whCode]]
     ELSE IF pb.type = "out_postback"
       THEN IF sku = <<>>
              THEN hs' = [hs EXCEPT ![h] = Ends(stO, "select_sku_first")]
                   /\ UNCHANGED Caches
            ELSE IF isOutLocked_(OUT_LOCK, actorKey, now)
              THEN hs' = [hs EXCEPT ![h] = Ends(stO, "retry_shortly")]
                   /\ UNCHANGED Caches
            ELSE /\ OUT_LOCK' = setOutLock_(OUT_LOCK, actorKey, now)
                 /\ UNCHANGED <<LAST_SKU_BY_ACTOR, LAST_WH_BY_ACTOR>>
                 /\ hs' = [hs EXCEPT ![h] = [stO EXCEPT !.pc = "before", !.sku = sku,
                                                        !.wh = whCode, !.lockAt = now]]
     ELSE hs' = [hs EXCEPT ![h] = Ends(st, "none")] /\ UNCHANGED Caches

\* handlePostback_
StartPostback(h, st) ==
  \E pb \in {parsePostback(postback_data(st.ev))} : StartPostbackOf(h, st, pb)

\* handleEvent_ after the dedup guard let the event through
StartEvent(h, st) ==
  IF st.ev.type = "postback" THEN StartPostback(h, st)
  ELSE IF st.ev.type # "message"
    THEN hs' = [hs EXCEPT ![h] = Ends(st, "none")] /\ UNCHANGED Caches
  ELSE \E parsed \in {parseCommand(message_text(st.ev))} :
         IF parsed.type = "none"
           THEN hs' = [hs EXCEPT ![h] = Ends(st, "none")] /\ UNCHANGED Caches
           ELSE StartCommand(h, st, parsed)

\* acquireEventDedup_: the insert into line_event_dedup answers, and handleEvent_
\* goes on to the first await of the handler it dispatches to.  The insert is
\* atomic in the store; a failed insert (errCode "other") may or may not have
\* written the row.  errCodes: the answers the store can give in the scenario.
DedupOf(h, errCodes) ==
  /\ hs[h].pc = "dedup"
  /\ LET id == trim(hs[h].ev.eventId)
     IN \E errCode \in errCodes, written \in BOOLEAN :
          /\ id = <<>> => errCode = "none" /\ ~written
          /\ id # <<>> /\ errCode = "none" => id \notin line_event_dedup /\ written
          /\ errCode = "23505" => id \in line_event_dedup /\ ~written
          /\ id # <<>> /\ errCode = "other" => (written => id \notin line_event_dedup)
          /\ line_event_dedup' = IF written THEN line_event_dedup \cup {id}
                                 ELSE line_event_dedup
          /\ LET dd == IF id = <<>> THEN "noid"
                       ELSE IF errCode = "none" THEN "ok"
                       ELSE IF errCode = "23505" THEN "dup" ELSE "err"
                 st == [hs[h] EXCEPT !.dd = dd]
             IN IF acquireEventDedup_(hs[h].ev.eventId, errCode)
                  THEN StartEvent(h, st)
                  ELSE hs' = [hs EXCEPT ![h] = Ends(st, "none")] /\ UNCHANGED Caches
  /\ UNCHANGED <<parse, STOCK_LIST_CACHE, now, inventory_lots>>

\* the dedup store is healthy
Dedup(h) == DedupOf(h, {"none", "23505"})

\* the dedup store may fail
DedupOrFault(h) == DedupOf(h, {"none", "23505", "other"})

\* text out-command: the stocked-warehouse list arrives and the warehouse is resolved
WhList(h) ==
  /\ hs[h].pc = "whlist"
  /\ \E whList \in {getWarehousesStockBySkuFromLots_(inventory_lots, hs[h].sku,
                                                      UnitsPerBoxOf(hs[h].sku))} :
       LET st == hs[h]
           lastWh == getLastWh_(LAST_WH_BY_ACTOR, Actor(h))
       IN hs' = [hs EXCEPT ![h] =
                   IF whList = <<>> THEN Ends(st, "no_stock")
                   ELSE IF ResolveOutWarehouse(st.hint, lastWh, whList) = Null
                     THEN Ends(st, "choose_wh")
                   ELSE [st EXCEPT !.pc = "before",
                                   !.wh = ResolveOutWarehouse(st.hint, lastWh, whList)]]
  /\ UNCHANGED <<parse, STOCK_LIST_CACHE, now, line_event_dedup, inventory_lots, Caches>>

\* getTodayStockRowsFromLots_ past its read: the listing is cached with the
\* time of the answer, and the search goes on
QueryRead(h) ==
  /\ hs[h].pc = "query"
  /\ \E rows \in {StockedSkus(inventory_lots, {})} :
       /\ STOCK_LIST_CACHE' = [cached |-> TRUE, ts |-> now, rows |-> rows]
       /\ QueryAnswer(h, hs[h], searchInTodayStock_(rows, hs[h].keyword))
  /\ UNCHANGED <<parse, now, line_event_dedup, inventory_lots>>

\* lookupProductsByBarcode_ answers: no product, one (its SKU flow starts) or
\* several (the product list is replied)
BarcodeRead(h) ==
  /\ hs[h].pc = "barcode"
  /\ \E list \in {SelectSeq(ProductsByBarcode(hs[h].keyword), LAMBDA x : skuKey_(x) # <<>>)} :
       IF list = <<>>
         THEN hs' = [hs EXCEPT ![h] = Ends(hs[h], "no_barcode")] /\ UNCHANGED Caches
       ELSE IF Len(list) = 1 THEN StartSkuFlow(h, hs[h], list[1])
       ELSE hs' = [hs EXCEPT ![h] = Ends(hs[h], "barcode_list")] /\ UNCHANGED Caches
  /\ UNCHANGED <<parse, STOCK_LIST_CACHE, now, line_event_dedup, inventory_lots>>

\* a slip of the pre-check: the figures another run read before are used again
Before_Earlier(h) ==
  /\ hs[h].pc = "before"
  /\ \E g \in DOMAIN hs :
       /\ hs[g].before # NoSnap \/ g = h
       /\ \A f \in DOMAIN hs : f < g => hs[f].before = NoSnap /\ f # h
       /\ \E beforeDetail \in {IF g = h
                                 THEN Figures(getWarehouseSnapshotDetailsFromLots_(
                                        inventory_lots, hs[h].sku, hs[h].wh,
                                        UnitsPerBoxOf(hs[h].sku)))
                                 ELSE hs[g].before} :
            hs' = [hs EXCEPT ![h] =
                     IF Insufficient(hs[h].outBox, hs[h].outPiece, beforeDetail)
                       THEN Ends([hs[h] EXCEPT !.before = beforeDetail,
                                               !.shown = beforeDetail], "insufficient")
                       ELSE [hs[h] EXCEPT !.before = beforeDetail, !.pc = "rpc"]]
  /\ UNCHANGED <<parse, STOCK_LIST_CACHE, now, line_event_dedup, inventory_lots, Caches>>

\* outbound request: the pre-check snapshot arrives; insufficient stock ends the
\* turn, otherwise the ledger mutation is requested
Before(h) ==
  /\ hs[h].pc = "before"
  /\ \E beforeDetail \in {getWarehouseSnapshotDetailsFromLots_(
                                inventory_lots, hs[h].sku, hs[h].wh, UnitsPerBoxOf(hs[h].sku))} :
       LET st == hs[h]
           st1 == [st EXCEPT !.before = Figures(beforeDetail)]
       IN hs' = [hs EXCEPT ![h] =
                   IF Insufficient(st.outBox, st.outPiece, beforeDetail)
                     THEN Ends([st1 EXCEPT !.shown = Figures(beforeDetail)], "insufficient")
                     ELSE [st1 EXCEPT !.pc = "rpc"]]
  /\ UNCHANGED <<parse, STOCK_LIST_CACHE, now, line_event_dedup, inventory_lots, Caches>>

\* local state written right after rpcFifoOutAndLog_ returned
AfterRpcOk(h) ==
  LET st == hs[h]
  IN /\ LAST_WH_BY_ACTOR' = setLastWh_(LAST_WH_BY_ACTOR, Actor(h), st.wh)
     /\ LAST_SKU_BY_ACTOR' = IF st.kind = "out_pb"
                               THEN setLastSku_(LAST_SKU_BY_ACTOR, Actor(h), st.sku)
                               ELSE LAST_SKU_BY_ACTOR
     /\ UNCHANGED OUT_LOCK
     /\ hs' = [hs EXCEPT ![h] = [st EXCEPT !.pc = "after", !.rpc = "ok"]]

\* a slip of the ledger call: the SKU and the warehouse looked up again in the
\* actor's context when the call is made
RpcOk_LastUsed(h) ==
  /\ hs[h].pc = "rpc"
  /\ LedgerAccepts(inventory_lots, getLastSku_(LAST_SKU_BY_ACTOR, Actor(h)),
                   getLastWh_(LAST_WH_BY_ACTOR, Actor(h)), hs[h].outBox, hs[h].outPiece)
  /\ inventory_lots' = LedgerApply(inventory_lots, getLastSku_(LAST_SKU_BY_ACTOR, Actor(h)),
                                   getLastWh_(LAST_WH_BY_ACTOR, Actor(h)),
                                   hs[h].outBox, hs[h].outPiece)
  /\ AfterRpcOk(h)
  /\ UNCHANGED <<parse, STOCK_LIST_CACHE, now, line_event_dedup>>

\* the ledger mutation succeeds
RpcOk(h) ==
  /\ hs[h].pc = "rpc"
  /\ LedgerAccepts(inventory_lots, hs[h].sku, hs[h].wh, hs[h].outBox, hs[h].outPiece)
  /\ inventory_lots' = LedgerApply(inventory_lots, hs[h].sku, hs[h].wh,
                                   hs[h].outBox, hs[h].outPiece)
  /\ AfterRpcOk(h)
  /\ UNCHANGED <<parse, STOCK_LIST_CACHE, now, line_event_dedup>>

\* slips of the catch branch: the notification fired all the same; the
\* warehouse remembered all the same
RpcFails_Notifies(h) ==
  /\ hs[h].pc = "rpc"
  /\ hs' = [hs EXCEPT ![h] = Ends([hs[h] EXCEPT !.rpc = "err", !.gas = "sent"], "failed")]
  /\ UNCHANGED <<parse, STOCK_LIST_CACHE, now, line_event_dedup, inventory_lots, Caches>>

RpcFails_KeepsWh(h) ==
  /\ hs[h].pc = "rpc"
  /\ hs' = [hs EXCEPT ![h] = Ends([hs[h] EXCEPT !.rpc = "err"], "failed")]
  /\ LAST_WH_BY_ACTOR' = setLastWh_(LAST_WH_BY_ACTOR, Actor(h), hs[h].wh)
  /\ UNCHANGED <<parse, STOCK_LIST_CACHE, now, line_event_dedup, inventory_lots, LAST_SKU_BY_ACTOR, OUT_LOCK>>

\* the ledger mutation returns an error or times out; a timed-out call may have
\* been applied by the ledger all the same
RpcFails(h) ==
  /\ hs[h].pc = "rpc"
  /\ \E applied \in BOOLEAN :
       /\ applied => LedgerAccepts(inventory_lots, hs[h].sku, hs[h].wh,
                                   hs[h].outBox, hs[h].outPiece)
       /\ inventory_lots' = IF applied
                              THEN LedgerApply(inventory_lots, hs[h].sku, hs[h].wh,
                                               hs[h].outBox, hs[h].outPiece)
                              ELSE inventory_lots
  /\ hs' = [hs EXCEPT ![h] = Ends([hs[h] EXCEPT !.rpc = "err"], "failed")]
  /\ UNCHANGED <<parse, STOCK_LIST_CACHE, now, line_event_dedup, Caches>>

\* a slip of the success reply: the pre-check snapshot shown again
After_Stale(h) ==
  /\ hs[h].pc = "after"
  /\ hs' = [hs EXCEPT ![h] = Ends([hs[h] EXCEPT !.shown = hs[h].before, !.gas = "sent"],
                                   "success")]
  /\ UNCHANGED <<parse, STOCK_LIST_CACHE, now, line_event_dedup, inventory_lots, Caches>>

\* the post-mutation snapshot arrives, the success reply is sent and the
\* notification is handed to fireAndForgetGas_, which nobody awaits
After(h) ==
  /\ hs[h].pc = "after"
  /\ \E afterDetail \in {getWarehouseSnapshotDetailsFromLots_(
                               inventory_lots, hs[h].sku, hs[h].wh, UnitsPerBoxOf(hs[h].sku))} :
       hs' = [hs EXCEPT ![h] = Ends([hs[h] EXCEPT !.shown = Figures(afterDetail),
                                                   !.gas = "sent"], "success")]
  /\ UNCHANGED <<parse, STOCK_LIST_CACHE, now, line_event_dedup, inventory_lots, Caches>>

\* handleSkuFlow_: the stocked-warehouse list arrives
SkuWhList(h) ==
  /\ hs[h].pc = "sku_whlist"
  /\ \E whList \in {getWarehousesStockBySkuFromLots_(inventory_lots, hs[h].sku,
                                                      UnitsPerBoxOf(hs[h].sku))} :
     LET st == hs[h]
     IN IF whList = <<>>
          THEN hs' = [hs EXCEPT ![h] = Ends(st, "no_sku_stock")] /\ UNCHANGED Caches
        ELSE IF Len(whList) >= 2
          THEN hs' = [hs EXCEPT ![h] = Ends(st, "choose_wh_query")] /\ UNCHANGED Caches
        ELSE /\ LAST_WH_BY_ACTOR' = setLastWh_(LAST_WH_BY_ACTOR, Actor(h), whList[1].code)
             /\ UNCHANGED <<LAST_SKU_BY_ACTOR, OUT_LOCK>>
             /\ hs' = [hs EXCEPT ![h] = [st EXCEPT !.pc = "snap", !.wh = whList[1].code]]
  /\ UNCHANGED <<parse, STOCK_LIST_CACHE, now, line_event_dedup, inventory_lots>>

\* SKU lookup / warehouse selection: the snapshot arrives and is replied
Snap(h) ==
  /\ hs[h].pc = "snap"
  /\ \E detail \in {getWarehouseSnapshotDetailsFromLots_(
                          inventory_lots, hs[h].sku, hs[h].wh, UnitsPerBoxOf(hs[h].sku))} :
       hs' = [hs EXCEPT ![h] = Ends([hs[h] EXCEPT !.shown = Figures(detail)], "sku_info")]
  /\ UNCHANGED <<parse, STOCK_LIST_CACHE, now, line_event_dedup, inventory_lots, Caches>>

\* postToGAS_ ends: the sink answered, or the post failed or timed out, which
\* is logged and nothing else
GasDone(h) ==
  /\ hs[h].gas = "sent"
  /\ \E outcome \in {"ok", "failed"} : hs' = [hs EXCEPT ![h].gas = outcome]
  /\ UNCHANGED <<parse, STOCK_LIST_CACHE, now, line_event_dedup, inventory_lots, Caches>>

\* a stock read fails or times out: the query helper throws and the run of
\* handleEvent_ ends there
ReadFails(h) ==
  /\ hs[h].pc \in {"whlist", "before", "after", "sku_whlist", "snap", "query", "barcode"}
  /\ hs' = [hs EXCEPT ![h].pc = "threw"]
  /\ UNCHANGED <<parse, STOCK_LIST_CACHE, now, line_event_dedup, inventory_lots, Caches>>

\* nothing arrives and nothing is pending for IdleMs
LongIdle ==
  /\ now = 0
  /\ \A h \in Handlers : hs[h].pc \in {"idle", "done", "threw"}
  /\ now' = now + IdleMs
  /\ UNCHANGED <<parse, STOCK_LIST_CACHE, line_event_dedup, inventory_lots, Caches, hs>>

\* time passes
Tick ==
  /\ now + TickMs <= MaxNow
  /\ now' = now + TickMs
  /\ UNCHANGED <<parse, STOCK_LIST_CACHE, line_event_dedup, inventory_lots, Caches, hs>>

Next ==
  \/ Tick
  \/ \E h \in Handlers :
       \/ Deliver(h)
       \/ Dedup(h)
       \/ WhList(h)
       \/ Before(h)
       \/ RpcOk(h)
       \/ RpcFails(h)
       \/ After(h)
       \/ SkuWhList(h)
       \/ Snap(h)
       \/ ReadFails(h)
       \/ GasDone(h)

Spec == Init /\ [][Next]_vars

\* replayed events and a dedup store that may fail
NextReplay ==
  \/ Tick
  \/ \E h \in Handlers :
       \/ DeliverReplayable(h)
       \/ Redeliver(h)
       \/ DedupOrFault(h)
       \/ Before(h)
       \/ RpcOk(h)
       \/ RpcFails(h)
       \/ After(h)
       \/ Snap(h)
       \/ GasDone(h)

SpecReplay == Init /\ [][NextReplay]_vars

\* replayed events, a dedup store that may fail and stock reads that may fail
NextRedelivery ==
  \/ Tick
  \/ \E h \in Handlers :
       \/ DeliverReplayable(h)
       \/ Redeliver(h)
       \/ DedupOrFault(h)
       \/ Before(h)
       \/ RpcOk(h)
       \/ After(h)
       \/ Snap(h)
       \/ ReadFails(h)

SpecRedelivery == Init /\ [][NextRedelivery]_vars

\* a conversation, a long silence, then an out-command
NextContext ==
  \/ LongIdle
  \/ \E h \in Handlers :
       \/ DeliverContext(h)
       \/ Dedup(h)
       \/ WhList(h)
       \/ Before(h)
       \/ RpcOk(h)
       \/ RpcFails(h)
       \/ After(h)
       \/ SkuWhList(h)
       \/ Snap(h)
       \/ GasDone(h)

SpecContext == Init /\ [][NextContext]_vars

\* the lookup-select-out conversation, its reads and its ledger call answered
NextFlow ==
  \/ Tick
  \/ \E h \in FlowHandlers :
       \/ DeliverFlow(h)
       \/ Dedup(h)
       \/ WhList(h)
       \/ Before(h)
       \/ RpcOk(h)
       \/ After(h)
       \/ SkuWhList(h)
       \/ Snap(h)
       \/ GasDone(h)

SpecFlow == InitFlow /\ [][NextFlow]_vars

\* listing queries while out-requests change the stock
NextListing ==
  \/ Tick
  \/ \E h \in FlowHandlers :
       \/ DeliverListing(h)
       \/ Dedup(h)
       \/ QueryRead(h)
       \/ SkuWhList(h)
       \/ Before(h)
       \/ RpcOk(h)
       \/ After(h)

SpecListing == InitFlow /\ [][NextListing]_vars

\* the other commands while the outbound lock is held
NextOthers ==
  \/ Tick
  \/ \E h \in Handlers :
       \/ DeliverOthers(h)
       \/ Dedup(h)
       \/ QueryRead(h)
       \/ BarcodeRead(h)
       \/ SkuWhList(h)
       \/ Snap(h)
       \/ Before(h)
       \/ RpcOk(h)
       \/ After(h)

SpecOthers == Init /\ [][NextOthers]_vars

\* the warehouse prompt of an out-command and the tap that answers it
NextPrompt ==
  \/ Tick
  \/ \E h \in FlowHandlers :
       \/ DeliverPrompt(h)
       \/ Dedup(h)
       \/ SkuWhList(h)
       \/ WhList(h)
       \/ Before(h)
       \/ RpcOk(h)
       \/ After(h)

SpecPrompt == InitFlow /\ [][NextPrompt]_vars

\* out-requests of every make
NextPayloads ==
  \/ Tick
  \/ \E h \in Handlers :
       \/ DeliverPayloads(h)
       \/ Dedup(h)
       \/ SkuWhList(h)
       \/ WhList(h)
       \/ Before(h)
       \/ RpcOk(h)
       \/ RpcFails(h)
       \/ After(h)

SpecPayloads == Init /\ [][NextPayloads]_vars

\* the selected SKU changes between a warehouse choice and an out-command
NextSwitch ==
  \/ Tick
  \/ \E h \in FlowHandlers :
       \/ DeliverSwitch(h)
       \/ Dedup(h)
       \/ SkuWhList(h)
       \/ Snap(h)
       \/ WhList(h)
       \/ Before(h)
       \/ RpcOk(h)
       \/ After(h)

SpecSwitch == InitFlow /\ [][NextSwitch]_vars

\* events of two conversations, interleaved
NextActors ==
  \/ Tick
  \/ \E h \in Handlers :
       \/ DeliverActors(h)
       \/ Dedup(h)
       \/ WhList(h)
       \/ Before(h)
       \/ RpcOk(h)
       \/ After(h)
       \/ SkuWhList(h)
       \/ Snap(h)

SpecActors == Init /\ [][NextActors]_vars

\* parseOutCommand(text)
ParseOut ==
  /\ parse.out = OutError("not_run")
  /\ parse' = [parse EXCEPT !.out = parseOutCommand(parse.text)]
  /\ UNCHANGED <<now, line_event_dedup, inventory_lots, Caches, STOCK_LIST_CACHE, hs>>

\* parseCommand(text)
ParseCmd ==
  /\ parse.cmd.type = "not_run"
  /\ parse' = [parse EXCEPT !.cmd = parseCommand(parse.text)]
  /\ UNCHANGED <<now, line_event_dedup, inventory_lots, Caches, STOCK_LIST_CACHE, hs>>

NextParse == ParseOut \/ ParseCmd

SpecParse == InitParse /\ [][NextParse]_vars

\* the call returns res
Returns(fn, res) ==
  /\ parse.fn = fn
  /\ ~parse.done
  /\ parse' = [parse EXCEPT !.done = TRUE, !.res = res]
  /\ UNCHANGED <<now, line_event_dedup, inventory_lots, Caches, STOCK_LIST_CACHE, hs>>

CallParsePostback == Returns("parsePostback", parsePostback(parse.arg.data))

CallResolveWarehouseLabel ==
  Returns("resolveWarehouseLabel_", resolveWarehouseLabel_(parse.arg.text))

CallGetWarehouseCodeForLabel ==
  Returns("getWarehouseCodeForLabel_", getWarehouseCodeForLabel_(parse.arg.text))

CallGetWarehousesStockBySku ==
  Returns("getWarehousesStockBySkuFromLots_",
          getWarehousesStockBySkuFromLots_(parse.arg.table, parse.arg.sku, parse.arg.upb))

\* each of the two reads of getLatestUnitCostPieceFromLots_ answers or fails
CallGetLatestUnitCostPiece ==
  \E pieceError, boxError \in BOOLEAN :
    Returns("getLatestUnitCostPieceFromLots_",
            [pieceError |-> pieceError, boxError |-> boxError,
             cost |-> getLatestUnitCostPieceFromLots_(parse.arg.table, parse.arg.sku,
                                                      parse.arg.wh, pieceError, boxError)])

CallParseCommand == Returns("parseCommand", parseCommand(parse.arg.text))

\* a slip of the reply step: the push follows whatever the reply did
SafeReplyReply_AlwaysPush ==
  /\ parse.fn = "safeReplyText_" /\ parse.res.pc = "reply"
  /\ \E outcome \in (IF parse.arg.replyToken THEN {"ok", "error", "timeout"} ELSE {"none"}) :
       parse' = [parse EXCEPT !.res.reply = outcome, !.res.pc = "push"]
  /\ UNCHANGED <<now, line_event_dedup, inventory_lots, Caches, STOCK_LIST_CACHE, hs>>

\* safeReplyText_ up to the end of the reply: without a token nothing is sent;
\* with one, lineReplyWithTimeout_ resolves, rejects or times out, and only a
\* reply that resolved ends the call
SafeReplyReply ==
  /\ parse.fn = "safeReplyText_" /\ parse.res.pc = "reply"
  /\ \E outcome \in (IF parse.arg.replyToken THEN {"ok", "error", "timeout"} ELSE {"none"}) :
       parse' = [parse EXCEPT !.res.reply = outcome,
                              !.res.pc = IF outcome = "ok" THEN "done" ELSE "push",
                              !.done = (outcome = "ok")]
  /\ UNCHANGED <<now, line_event_dedup, inventory_lots, Caches, STOCK_LIST_CACHE, hs>>

\* safeReplyText_ after that: without an address it returns; with one,
\* linePushWithTimeout_ resolves, rejects or times out, and the call returns
SafeReplyPush ==
  /\ parse.fn = "safeReplyText_" /\ parse.res.pc = "push"
  /\ \E outcome \in (IF parse.arg.to # "" THEN {"ok", "error", "timeout"} ELSE {"none"}) :
       parse' = [parse EXCEPT !.res.push = outcome, !.res.pc = "done", !.done = TRUE]
  /\ UNCHANGED <<now, line_event_dedup, inventory_lots, Caches, STOCK_LIST_CACHE, hs>>

\* the item buildQuickReplyWarehousesForOut_ makes for a warehouse, and what
\* parsePostback reads from its data when it is tapped
CallBuildAndParse ==
  /\ parse.fn = "buildQuickReplyWarehousesForOut_"
  /\ \E data \in {OutData(parse.arg.sku, parse.arg.code, parse.arg.outBox,
                           parse.arg.outPiece)} :
       Returns("buildQuickReplyWarehousesForOut_", [data |-> data, pb |-> parsePostback(data)])

\* getWarehouseSnapshotDetailsFromLots_ for one warehouse, beside the entries
\* getWarehousesStockBySkuFromLots_ lists on the same table and units per box
CallGetWarehouseSnapshotDetails ==
  /\ parse.fn = "getWarehouseSnapshotDetailsFromLots_"
  /\ Returns("getWarehouseSnapshotDetailsFromLots_",
             [snap |-> getWarehouseSnapshotDetailsFromLots_(parse.arg.table, parse.arg.sku,
                                                            parse.arg.whCode, parse.arg.upb),
              list |-> getWarehousesStockBySkuFromLots_(parse.arg.table, parse.arg.sku,
                                                        parse.arg.upb)])

NextFns ==
  \/ CallParsePostback
  \/ CallGetWarehouseSnapshotDetails
  \/ CallBuildAndParse
  \/ CallParseCommand
  \/ SafeReplyReply
  \/ SafeReplyPush
  \/ CallGetWarehousesStockBySku
  \/ CallGetLatestUnitCostPiece
  \/ CallResolveWarehouseLabel
  \/ CallGetWarehouseCodeForLabel

SpecFns == InitFns /\ [][NextFns]_vars

(***************************************************************************)
(* properties                                                              *)
(***************************************************************************)
\* the run h has been answered by the dedup store
Answered(h) == hs[h].pc \notin {"idle", "dedup"}

\* the run h has called the ledger mutation (the call may still be in flight)
Attempted(h) == hs[h].pc \in {"rpc", "after"} \/ hs[h].rpc # "none"

\* the run h ended at the dedup guard: nothing dispatched, replied, locked or called
DroppedAtGuard(h) ==
  /\ hs[h].pc = "done"
  /\ hs[h].kind = "none"
  /\ hs[h].reply = "none"
  /\ hs[h].lockAt = -1
  /\ hs[h].before = NoSnap
  /\ hs[h].rpc = "none"

\* the answered runs of the event identifier id
RunsOf(id) == { h \in Handlers : Answered(h) /\ trim(hs[h].ev.eventId) = id }

EventIds == { EventIdOf(h) : h \in Handlers }

\* the dedup store answered every run of id without an error of its own
StoreHealthyFor(id) == \A h \in RunsOf(id) : hs[h].dd # "err"

C2_OneWinner ==
  \A id \in EventIds :
    RunsOf(id) # {} /\ StoreHealthyFor(id) =>
      /\ Cardinality({ h \in RunsOf(id) : hs[h].dd = "ok" }) = 1
      /\ \A h \in RunsOf(id) : hs[h].dd # "ok" => hs[h].dd = "dup" /\ DroppedAtGuard(h)

\* both inserts were pending together and the later delivery won: the run that
\* was delivered first is the one dropped
C2_Witness ==
  \E g, h \in Handlers :
    /\ g < h
    /\ hs[g].ev = hs[h].ev
    /\ hs[h].dd = "ok" /\ hs[h].kind # "none"
    /\ hs[g].dd = "dup" /\ DroppedAtGuard(g)

\* C3: a run whose dedup insert failed with an error other than the uniqueness
\* conflict is dispatched like an accepted one, and a run ends at the guard only
\* on the uniqueness conflict.
C3_FailOpen ==
  \A h \in Handlers :
    Answered(h) =>
      /\ hs[h].dd = "err" => hs[h].kind # "none"
      /\ hs[h].kind = "none" <=> hs[h].dd = "dup"

\* a run whose insert failed went all the way to a successful mutation
C3_Witness ==
  \E h \in Handlers : hs[h].dd = "err" /\ hs[h].rpc = "ok" /\ hs[h].reply = "success"

\* the run h is an outbound request: a text out-command with a quantity, or an
\* outbound-confirm postback
IsOutRequest(h) ==
  \/ hs[h].kind = "out_text" /\ ~(hs[h].outBox = 0 /\ hs[h].outPiece = 0)
  \/ hs[h].kind = "out_pb"

\* the pre-check snapshot of the run h has been read
PreChecked(h) == hs[h].before # NoSnap

\* C4: an outbound request whose box quantity exceeds the box quantity of its
\* pre-check snapshot, or whose piece quantity exceeds the snapshot's piece
\* quantity, replies insufficient-stock and never calls the ledger; the two
\* quantities are compared each on its own.
C4_PreCheck ==
  \A h \in Handlers :
    IsOutRequest(h) /\ PreChecked(h)
      /\ (hs[h].outBox > hs[h].before.box \/ hs[h].outPiece > hs[h].before.piece)
    => hs[h].pc = "done" /\ hs[h].reply = "insufficient" /\ ~Attempted(h)

\* enough boxes but too few pieces: rejected, the spare boxes do not cover it
C4_Witness ==
  \E h \in Handlers :
    /\ IsOutRequest(h) /\ PreChecked(h)
    /\ hs[h].outBox > 0 /\ hs[h].outBox < hs[h].before.box
    /\ hs[h].outPiece > hs[h].before.piece
    /\ hs[h].reply = "insufficient"

\* the SKU the postback of the run h names (<<>>: none, or not a postback)
PayloadSku(h) == parsePostback(postback_data(hs[h].ev)).sku

\* C5: an outbound request of an actor with no resolved SKU (none selected for
\* the actor key, none in the postback payload) ends with the select-a-product
\* reply, with no pre-check read and no ledger call.  The caches never lose a
\* SKU, so an actor without one now had none when the request was handled.
C5_NoSkuReply ==
  \A h \in Handlers :
    /\ IsOutRequest(h)
    /\ hs[h].pc = "done"
    /\ getLastSku_(LAST_SKU_BY_ACTOR, Actor(h)) = <<>>
    /\ PayloadSku(h) = <<>>
    => hs[h].reply = "select_sku_first" /\ ~PreChecked(h) /\ ~Attempted(h)

\* C6: every ledger mutation call carries a box and a piece quantity that are
\* not both zero.
C6_NeverZeroZero ==
  \A h \in Handlers : Attempted(h) => ~(hs[h].outBox = 0 /\ hs[h].outPiece = 0)

\* the runs of the actor a that acquired the outbound lock
LockHolders(a) == { h \in Handlers : hs[h].pc # "idle" /\ Actor(h) = a /\ hs[h].lockAt >= 0 }

\* C7: a run calls the ledger only after it acquired the outbound lock of its
\* actor; a request rejected with retry-shortly acquired nothing, read nothing
\* and called nothing; and no two runs of one actor acquired the lock less than
\* OUT_LOCK_MS apart, so a request that found the lock held was rejected.
C7_OutLock ==
  /\ \A h \in Handlers : Attempted(h) => hs[h].lockAt >= 0
  /\ \A h \in Handlers :
       hs[h].reply = "retry_shortly" =>
         hs[h].lockAt = -1 /\ ~PreChecked(h) /\ ~Attempted(h)
  /\ \A a \in ActorKeys : \A g, h \in LockHolders(a) :
       g # h => \/ hs[g].lockAt - hs[h].lockAt >= OUT_LOCK_MS
                \/ hs[h].lockAt - hs[g].lockAt >= OUT_LOCK_MS

\* one request went on to the ledger under the lock while a second request of
\* the same actor was rejected
C7_Witness ==
  \E g, h \in Handlers :
    /\ g # h
    /\ Actor(g) = Actor(h)
    /\ hs[g].lockAt >= 0 /\ Attempted(g)
    /\ IsOutRequest(h) /\ hs[h].reply = "retry_shortly"

\* the lock of the actor a blocks at time t only by an acquisition of one of its
\* runs that is less than OUT_LOCK_MS old
BlockedByRecent(lock, runs, a, t) ==
  isOutLocked_(lock, a, t) =>
    \E h \in Handlers :
      /\ runs[h].pc # "idle"
      /\ getActorKey_(runs[h].ev.source) = a
      /\ runs[h].lockAt >= 0
      /\ t < runs[h].lockAt + OUT_LOCK_MS

\* C8: whatever a run does (success, insufficient stock, ledger failure, a
\* thrown error), the lock of an actor is never removed or shortened: a step
\* changes it only by a new acquisition at a time it no longer blocks; and it
\* blocks only while an acquisition is less than OUT_LOCK_MS old, whether or
\* not the acquiring run ever finished.
C8_Step ==
  \A a \in ActorKeys :
    /\ OUT_LOCK'[a] >= OUT_LOCK[a]
    /\ OUT_LOCK'[a] # OUT_LOCK[a] =>
         ~isOutLocked_(OUT_LOCK, a, now) /\ OUT_LOCK'[a] = now + OUT_LOCK_MS
    /\ BlockedByRecent(OUT_LOCK', hs', a, now')

C8_ExpiryOnly == [][C8_Step]_vars

\* a run took the lock and died in a failed read; OUT_LOCK_MS later the actor
\* is no longer blocked
C8_Witness ==
  \E h \in Handlers :
    /\ hs[h].pc = "threw"
    /\ hs[h].lockAt >= 0
    /\ now >= hs[h].lockAt + OUT_LOCK_MS
    /\ ~isOutLocked_(OUT_LOCK, Actor(h), now)

\* the warehouses in which the table holds stock of sku
StockedCodes(table, sku) ==
  { table[i].warehouse_code : i \in { j \in DOMAIN table :
      /\ table[j].product_sku = sku
      /\ table[j].uom \in {"box", "piece"}
      /\ table[j].qty_left > 0 } }

\* the run h resolved the warehouse wh and went on to the pre-check
ResolvedTo(h, wh) == hs'[h].pc = "before" /\ hs'[h].wh = wh

\* C9: when a text out-command of a SKU with stock resolves its warehouse: a
\* hint in the command decides; without a hint the last-used warehouse of the
\* actor, if it is among the stocked warehouses of the SKU; otherwise, with two
\* or more stocked warehouses, the user is asked to choose and the turn ends
\* without a ledger call; otherwise the only stocked warehouse.
C9_Step ==
  \A h \in Handlers :
    /\ hs[h].pc = "whlist"
    /\ hs'[h].pc \in {"before", "done"}
    /\ StockedCodes(inventory_lots, hs[h].sku) # {}
    => LET stocked == StockedCodes(inventory_lots, hs[h].sku)
           lastWh == LAST_WH_BY_ACTOR[Actor(h)]
       IN IF hs[h].hint # <<>>
            THEN ResolvedTo(h, getWarehouseCodeForLabel_(hs[h].hint))
          ELSE IF lastWh \in stocked THEN ResolvedTo(h, lastWh)
          ELSE IF Cardinality(stocked) >= 2
            THEN /\ hs'[h].pc = "done"
                 /\ hs'[h].reply = "choose_wh"
                 /\ hs'[h].before = NoSnap /\ hs'[h].rpc = "none"
          ELSE \E wh \in stocked : ResolvedTo(h, wh)

StockOf(table, sku, wh) ==
  LET qty(uom) ==
        LET idx == { i \in DOMAIN table : /\ table[i].product_sku = sku
                                          /\ table[i].warehouse_code = wh
                                          /\ table[i].uom = uom }
            RECURSIVE sum(_)
            sum(S) == IF S = {} THEN 0
                      ELSE LET i == CHOOSE j \in S : TRUE
                           IN table[i].qty_left + sum(S \ {i})
        IN sum(idx)
  IN [box |-> qty("box"), piece |-> qty("piece")]

\* C10: the step in which the ledger mutation returns success leaves the
\* mutated warehouse as the last-used warehouse of the actor, and the success
\* reply shows the stock the table holds when the reply is built, which is
\* read after the mutation returned.  (The handlers keep no dialog state.)
C10_Step ==
  \A h \in Handlers :
    /\ hs[h].pc = "rpc" /\ hs'[h].rpc = "ok" =>
         /\ LAST_WH_BY_ACTOR'[Actor(h)] = hs[h].wh
         /\ hs'[h].pc = "after"
    /\ hs'[h].reply = "success" /\ hs[h].reply # "success" =>
         /\ hs[h].pc = "after" /\ hs[h].rpc = "ok"
         /\ hs'[h].shown = StockOf(inventory_lots, hs[h].sku, hs[h].wh)

C10_AfterSuccess == [][C10_Step]_vars

\* a success reply whose figures differ from the pre-check snapshot
C10_Witness ==
  \E h \in Handlers :
    /\ hs[h].reply = "success"
    /\ hs[h].shown # hs[h].before
    /\ hs[h].shown = StockOf(inventory_lots, hs[h].sku, hs[h].wh)
    /\ LAST_WH_BY_ACTOR[Actor(h)] = hs[h].wh

\* C11: the notification is handed over only by the step that sends the
\* success reply of a run whose ledger mutation succeeded, once per run; when
\* the post ends, well or badly, it is not sent again and the step changes
\* nothing but the record of the notification itself: no reply, no cache, no
\* table.
C11_Step ==
  \A h \in Handlers :
    /\ hs'[h].gas # "none" => hs'[h].rpc = "ok" /\ hs'[h].reply = "success"
    /\ hs'[h].gas # hs[h].gas =>
         \/ /\ hs[h].gas = "none" /\ hs'[h].gas = "sent"
            /\ hs[h].pc = "after"
         \/ /\ hs[h].gas = "sent" /\ hs'[h].gas \in {"ok", "failed"}
            /\ hs' = [hs EXCEPT ![h].gas = hs'[h].gas]
            /\ UNCHANGED <<Caches, inventory_lots, line_event_dedup>>

C11_Notification == [][C11_Step]_vars

\* the notification of a successful mutation failed and the success reply stands
C11_Witness ==
  \E h \in Handlers :
    hs[h].gas = "failed" /\ hs[h].rpc = "ok" /\ hs[h].reply = "success"

\* C12: a run whose ledger mutation returns an error ends with the failure
\* reply and without notification, and no step of an outbound run other than
\* the successful return of the ledger writes the last SKU or the last-used
\* warehouse of any actor, so a failed request leaves them as it found them.
\* (The handlers keep no dialog state.)
C12_Step ==
  \A h \in Handlers :
    /\ hs'[h].rpc = "err" =>
         hs'[h].pc = "done" /\ hs'[h].reply = "failed" /\ hs'[h].gas = "none"
    /\ hs'[h] # hs[h] /\ hs'[h].kind \in {"out_text", "out_pb"} /\ hs'[h].rpc # "ok" =>
         UNCHANGED <<LAST_SKU_BY_ACTOR, LAST_WH_BY_ACTOR>>

C12_LedgerFailure == [][C12_Step]_vars

\* a failed postback request: the SKU and the warehouse it named were not
\* remembered
C12_Witness ==
  \E h \in Handlers :
    /\ hs[h].kind = "out_pb"
    /\ hs[h].rpc = "err" /\ hs[h].reply = "failed"
    /\ LAST_SKU_BY_ACTOR[Actor(h)] = <<>>
    /\ LAST_WH_BY_ACTOR[Actor(h)] = <<>>

\* C13: an out-command handled after a silence of 31 minutes, every selection
\* of the actor being older than that, is answered as if the actor had no
\* context: select a product first.
C13_ContextExpires ==
  \A h \in Handlers :
    hs[h].kind = "out_text" /\ hs[h].lockAt >= IdleMs =>
      hs[h].pc = "done" /\ hs[h].reply = "select_sku_first"

\* C14: the step that handles a word of cancellation leaves the actor without
\* context (no SKU, no warehouse), whatever it was before.
C14_Step ==
  \A h \in Handlers :
    /\ hs[h].pc = "dedup" /\ hs'[h].pc # "dedup"
    /\ hs'[h].dd # "dup"
    /\ message_text(hs[h].ev) = TxtCancel
    => /\ LAST_SKU_BY_ACTOR'[Actor(h)] = <<>>
       /\ LAST_WH_BY_ACTOR'[Actor(h)] = <<>>

C14_CancelClears == [][C14_Step]_vars

(***************************************************************************)
(* the command grammar as the claims read it: a prefix, then quantities    *)
(* each made of an integer and a unit                                      *)
(***************************************************************************)
\* the length of a unit at the start of u, 0 when there is none
GrammarUnitLen(u) ==
  IF u = <<>> THEN 0
  ELSE IF u[1] \in {zh.xiang} \cup PieceUnits THEN 1
  ELSE IF Len(u) >= 3 /\ toLowerCase(Take(u, 3)) = <<"p", "c", "s">> THEN 3
  ELSE IF Len(u) >= 2 /\ toLowerCase(Take(u, 2)) = <<"p", "c">> THEN 2
  ELSE 0

\* the length of an integer+unit token at the start of s, 0 when there is none
GrammarTokenLen(s) ==
  IF SpanDigit(s) = 0 \/ GrammarUnitLen(SkipSpace(Drop(s, SpanDigit(s)))) = 0 THEN 0
  ELSE SpanDigit(s) + SpanSpace(Drop(s, SpanDigit(s)))
         + GrammarUnitLen(SkipSpace(Drop(s, SpanDigit(s))))

GrammarAdd(tok, n, acc) ==
  [acc EXCEPT !.tokens = @ + 1,
              !.zeros = IF n = 0 THEN @ + 1 ELSE @,
              !.box = IF tok[Len(tok)] = zh.xiang THEN @ + n ELSE @,
              !.piece = IF tok[Len(tok)] # zh.xiang THEN @ + n ELSE @]

\* the tokens of s: how many, how many of quantity zero, the sum of each class,
\* and the text that is neither token nor white space
RECURSIVE GrammarScan(_)
GrammarScan(s) ==
  IF s = <<>> THEN [tokens |-> 0, zeros |-> 0, box |-> 0, piece |-> 0, extra |-> <<>>]
  ELSE IF GrammarTokenLen(s) > 0
    THEN GrammarAdd(Take(s, GrammarTokenLen(s)), DigitsValue(Take(s, SpanDigit(s))),
                    GrammarScan(Drop(s, GrammarTokenLen(s))))
  ELSE IF IsSpace(s[1]) THEN GrammarScan(Tail(s))
  ELSE [GrammarScan(Tail(s)) EXCEPT !.extra = <<s[1]>> \o @]

\* what follows the out prefix
AfterPrefix(text) ==
  IF StartsWith(text, <<zh.chu, zh.ku>>) THEN Drop(text, 2) ELSE Drop(text, 1)

Grammar == GrammarScan(AfterPrefix(parse.text))

\* the text is the prefix followed only by well-formed tokens, at least one
OnlyTokens == Grammar.tokens >= 1 /\ Grammar.zeros = 0 /\ Grammar.extra = <<>>

OutRan == parse.out # OutError("not_run")

CmdRan == parse.cmd.type # "not_run"

\* C15: a prefix followed only by well-formed integer+unit tokens, in any
\* order and repetition, is parsed successfully by either parser, and the box
\* and piece totals are the sums of the tokens of each class.
C15_TokenSums ==
  OnlyTokens =>
    /\ OutRan => /\ parse.out.ok
                 /\ parse.out.boxQty = Grammar.box
                 /\ parse.out.pieceQty = Grammar.piece
    /\ CmdRan => /\ parse.cmd.type = "change"
                 /\ parse.cmd.box = Grammar.box
                 /\ parse.cmd.piece = Grammar.piece

C17_NoConversion ==
  /\ parse.text = <<zh.chu, "2", zh.xiang>> =>
       /\ OutRan => parse.out.ok /\ parse.out.boxQty = 2 /\ parse.out.pieceQty = 0
       /\ CmdRan => parse.cmd.type = "change" /\ parse.cmd.box = 2 /\ parse.cmd.piece = 0
  /\ parse.text = <<zh.chu, "2", zh.jian>> =>
       /\ OutRan => parse.out.ok /\ parse.out.boxQty = 0 /\ parse.out.pieceQty = 2
       /\ CmdRan => parse.cmd.type = "change" /\ parse.cmd.box = 0 /\ parse.cmd.piece = 2
  /\ OutRan /\ parse.out.ok =>
       /\ Grammar.box = 0 => parse.out.boxQty = 0
       /\ Grammar.piece = 0 => parse.out.pieceQty = 0

\* the text is the prefix and a bare positive integer
BareInteger ==
  /\ trim(AfterPrefix(parse.text)) # <<>>
  /\ SpanDigit(trim(AfterPrefix(parse.text))) = Len(trim(AfterPrefix(parse.text)))
  /\ DigitsValue(trim(AfterPrefix(parse.text))) > 0

BareValue == DigitsValue(trim(AfterPrefix(parse.text)))

\* C18, as stated: the prefix and a bare positive integer N parse to box 0 and
\* piece N, in either parser.
C18_AsStated ==
  BareInteger =>
    /\ CmdRan => parse.cmd.type = "change" /\ parse.cmd.box = 0 /\ parse.cmd.piece = BareValue
    /\ OutRan => parse.out.ok /\ parse.out.boxQty = 0 /\ parse.out.pieceQty = BareValue

\* C18: the prefix and a bare positive integer N parse to box 0 and piece N in
\* parseCommand; parseOutCommand, which has no rule for a bare integer,
\* rejects the text with no_tokens.
C18_BareInteger ==
  BareInteger =>
    /\ CmdRan => parse.cmd.type = "change" /\ parse.cmd.box = 0 /\ parse.cmd.piece = BareValue
    /\ OutRan => ~parse.out.ok /\ parse.out.error = "no_tokens"

C18_Witness ==
  /\ BareInteger /\ CmdRan /\ OutRan
  /\ parse.text = <<zh.chu, "5", "5">>
  /\ parse.cmd.piece = 55

\* C19: a text with at least one integer+unit token whose only other text is
\* digits, ending in a bare integer, is not parsed into a command by
\* parseCommand.
C19_NoBareAfterToken ==
  /\ CmdRan
  /\ Grammar.tokens >= 1
  /\ Grammar.extra # <<>>
  /\ \A i \in DOMAIN Grammar.extra : IsDigit(Grammar.extra[i])
  /\ IsDigit(parse.text[Len(parse.text)])
  => parse.cmd.type = "none"

\* C20: a successful parse has box >= 0 and piece >= 0, not both zero, in either
\* parser.
C20_NeverBothZero ==
  /\ CmdRan /\ parse.cmd.type = "change" =>
       /\ parse.cmd.box >= 0 /\ parse.cmd.piece >= 0
       /\ ~(parse.cmd.box = 0 /\ parse.cmd.piece = 0)
  /\ OutRan /\ parse.out.ok =>
       /\ parse.out.boxQty >= 0 /\ parse.out.pieceQty >= 0
       /\ ~(parse.out.boxQty = 0 /\ parse.out.pieceQty = 0)

\* the call of fn examined on its own has returned
Returned(fn) == parse.fn = fn /\ parse.done

\* the integer a field starts with (an optional minus sign, then digits); 0
\* when it starts with none
LeadingInt(v) ==
  IF v # <<>> /\ v[1] = "-"
    THEN 0 - DigitsValue(Take(Tail(v), SpanDigit(Tail(v))))
    ELSE DigitsValue(Take(v, SpanDigit(v)))

\* the field is an integer written out: an optional minus sign, then digits only
IsInteger(v) ==
  /\ v # Null /\ v # <<>>
  /\ IF v[1] = "-" THEN Len(v) >= 2 /\ SpanDigit(Tail(v)) = Len(v) - 1
                   ELSE SpanDigit(v) = Len(v)

\* what the claim expects of a numeric field: its value when it is an integer,
\* 0 when it is missing or anything else
QtyAsStated(v) == IF IsInteger(v) THEN LeadingInt(v) ELSE 0

\* kind, SKU and warehouse hint of a parsed postback with the fields f
PostbackHead(f, pb) ==
  /\ f.a \notin {<<"o", "u", "t">>, <<"w", "h", "_", "s", "e", "l", "e", "c", "t">>}
       => pb = NoPostback
  /\ f.a = <<"w", "h", "_", "s", "e", "l", "e", "c", "t">>
       => pb.type = "wh_select_postback"
  /\ f.a = <<"o", "u", "t">> => pb.type = "out_postback"
  /\ pb # NoPostback =>
       /\ pb.sku = (IF f.sku = Null THEN <<>> ELSE toLowerCase(trim(f.sku)))
       /\ pb.wh = (IF f.wh = Null THEN <<>> ELSE f.wh)

\* C21, as stated: parsePostback returns null for an empty or unknown-action
\* payload, the matching kind with SKU and warehouse hint otherwise, and every
\* box or piece field that is missing or not a number becomes 0.
C21_AsStated ==
  Returned("parsePostback") =>
    /\ PostbackHead(parse.arg.fields, parse.res)
    /\ parse.res.type = "out_postback" =>
         /\ parse.res.box = QtyAsStated(parse.arg.fields.box)
         /\ parse.res.piece = QtyAsStated(parse.arg.fields.piece)

\* C21: parsePostback returns null for an empty or unknown-action payload, the
\* matching kind with SKU and warehouse hint otherwise; a box or piece field
\* that is missing or does not start with an integer becomes 0, and a field
\* that starts with an integer gives that integer, whatever follows it.
C21_Postback ==
  Returned("parsePostback") =>
    /\ PostbackHead(parse.arg.fields, parse.res)
    /\ parse.res.type = "out_postback" =>
         /\ parse.res.box = (IF parse.arg.fields.box = Null THEN 0
                             ELSE LeadingInt(parse.arg.fields.box))
         /\ parse.res.piece = (IF parse.arg.fields.piece = Null THEN 0
                               ELSE LeadingInt(parse.arg.fields.piece))

C21_Witness ==
  /\ Returned("parsePostback")
  /\ parse.arg.fields.a = <<"o", "u", "t">>
  /\ parse.arg.fields.box = <<"x">>
  /\ parse.arg.fields.sku = <<" ", "B">>
  /\ parse.res.box = 0 /\ parse.res.piece = 12 /\ parse.res.sku = <<"b">>

\* the registry of warehouses as the claim reads it: the label of each code
LabelOfCode(k) ==
  IF k \in {main, main_warehouse} THEN <<zh.zong, zh.cang>>
  ELSE IF k = swap THEN <<zh.jia, zh.huan, zh.pin>>
  ELSE IF k = withdraw THEN <<zh.che, zh.tai>>
  ELSE IF k = unspecified THEN <<zh.wei, zh.zhi, zh.ding>>
  ELSE Null

\* the code of each label, the legacy alias main_warehouse folded to main
CodeOfLabel(l) ==
  IF l = <<zh.zong, zh.cang>> THEN main
  ELSE IF l = <<zh.jia, zh.huan, zh.pin>> THEN swap
  ELSE IF l = <<zh.che, zh.tai>> THEN withdraw
  ELSE IF l = <<zh.wei, zh.zhi, zh.ding>> THEN unspecified
  ELSE Null

\* letters, digits and underscores only
HasCodeSyntax(t) ==
  t # <<>> /\ \A i \in DOMAIN t : IsWordChar(t[i])

\* C22: resolveWarehouseLabel_ gives the registry label of a registered code,
\* the unspecified label for empty input and the (trimmed) input otherwise;
\* getWarehouseCodeForLabel_ gives the lower-cased input when it has code
\* syntax, main_warehouse folded to main, else the code of the label, else
\* unspecified.
C22_Resolver ==
  /\ Returned("resolveWarehouseLabel_") =>
       parse.res = (IF trim(parse.arg.text) = <<>> THEN <<zh.wei, zh.zhi, zh.ding>>
                    ELSE IF LabelOfCode(trim(parse.arg.text)) # Null
                      THEN LabelOfCode(trim(parse.arg.text))
                    ELSE trim(parse.arg.text))
  /\ Returned("getWarehouseCodeForLabel_") =>
       parse.res = (IF HasCodeSyntax(trim(parse.arg.text))
                      THEN (IF toLowerCase(trim(parse.arg.text)) = main_warehouse THEN main
                            ELSE toLowerCase(trim(parse.arg.text)))
                    ELSE IF CodeOfLabel(trim(parse.arg.text)) # Null
                      THEN CodeOfLabel(trim(parse.arg.text))
                    ELSE unspecified)

C22_Witness ==
  /\ Returned("getWarehouseCodeForLabel_")
  /\ parse.arg.text = <<"M", "A", "I", "N", "_", "W", "A", "R", "E", "H", "O", "U", "S", "E">>
  /\ parse.res = main

\* the open lots of (sku, wh) in the unit uom: the sum of their remaining
\* quantities, each weighted by its unit cost when priced
RECURSIVE LotSum(_, _, _, _, _)
LotSum(table, sku, wh, uom, priced) ==
  IF table = <<>> THEN 0
  ELSE LotSum(Tail(table), sku, wh, uom, priced)
         + (IF /\ table[1].product_sku = sku /\ table[1].warehouse_code = wh
               /\ table[1].uom = uom /\ table[1].qty_left > 0
              THEN (IF priced THEN table[1].qty_left * table[1].unit_cost_piece
                    ELSE table[1].qty_left)
              ELSE 0)

\* the warehouses where the sku has remaining stock
StockedWarehouses(table, sku) ==
  { table[i].warehouse_code : i \in { j \in DOMAIN table :
      table[j].product_sku = sku /\ table[j].qty_left > 0 } }

\* the list has exactly one entry for each stocked warehouse and no other
\* entry, with the box and piece sums of that warehouse
OneEntryEach(list, table, sku) ==
  /\ { list[i].code : i \in DOMAIN list } = StockedWarehouses(table, sku)
  /\ Len(list) = Cardinality(StockedWarehouses(table, sku))
  /\ \A i \in DOMAIN list :
       /\ list[i].box = LotSum(table, sku, list[i].code, "box", FALSE)
       /\ list[i].piece = LotSum(table, sku, list[i].code, "piece", FALSE)

OpenLots(table, sku, wh, uom) ==
  { i \in DOMAIN table :
      /\ table[i].product_sku = sku /\ table[i].warehouse_code = wh
      /\ table[i].uom = uom /\ table[i].qty_left > 0 }

\* the unit cost of the most recently opened of them
NewestCost(table, lots) ==
  table[CHOOSE i \in lots : \A j \in lots : table[j].inbound_at <= table[i].inbound_at]
    .unit_cost_piece

\* the display cost when the piece lots (the box lots) are the sets given
CostOf(table, pieceLots, boxLots) ==
  IF pieceLots # {} THEN <<NewestCost(table, pieceLots)>>
  ELSE IF boxLots # {} THEN <<NewestCost(table, boxLots)>>
  ELSE <<>>

C26_Step ==
  parse.fn = "safeReplyText_" =>
    /\ parse'.res.push # "none" => parse'.res.reply \in {"none", "error", "timeout"}
    /\ parse'.res.push # "none" /\ parse'.res.reply = "none" => ~parse.arg.replyToken
    /\ parse.res.reply = "ok" => parse'.res = parse.res
    /\ parse.res.push # "none" => parse'.res = parse.res
    /\ parse.res.reply # "none" => parse'.res.reply = parse.res.reply
    /\ parse'.res.push # "none" => parse'.done

C26_ReplyThenPush == [][C26_Step]_vars

C26_Witness ==
  /\ parse.fn = "safeReplyText_" /\ parse.done
  /\ parse.res.reply = "error" /\ parse.res.push = "error"

\* what follows the head h in the trimmed text t, if t starts with h
Follows(t, h) == StartsWith(t, h) /\ Len(t) > Len(h)

\* C30: parseCommand gives the intent of the rule its text starts with: the
\* version keyword alone, then the warehouse, barcode, SKU and query prefixes
\* followed by something, then the outbound grammar; and no command for a
\* text that starts with none of them.
C30_Dispatch ==
  Returned("parseCommand") =>
    /\ trim(parse.arg.text) \in {<<"d", "b">>, <<"D", "B">>, <<zh.ban, zh.ben>>}
         => parse.res.type = "db"
    /\ Follows(trim(parse.arg.text), <<zh.cang>>) => parse.res.type = "wh_select"
    /\ Follows(trim(parse.arg.text), <<zh.tiao, zh.ma>>) => parse.res.type = "barcode"
    /\ Follows(trim(parse.arg.text), <<"#">>) => parse.res.type = "sku"
    /\ Follows(trim(parse.arg.text), <<zh.bian, zh.hao>>) => parse.res.type = "sku"
    /\ Follows(trim(parse.arg.text), <<zh.cha>>) => parse.res.type = "query"
    /\ StartsWith(trim(parse.arg.text), <<zh.chu>>) => parse.res.type \in {"change", "none"}
    /\ parse.res.type = "change" => StartsWith(trim(parse.arg.text), <<zh.chu>>)
    /\ parse.res.type = "db"
         => trim(parse.arg.text) \in {<<"d", "b">>, <<"D", "B">>, <<zh.ban, zh.ben>>}
    /\ parse.res.type \in {"wh_select", "barcode", "sku", "query"}
         => \E h \in {<<zh.cang>>, <<zh.tiao, zh.ma>>, <<"#">>, <<zh.bian, zh.hao>>, <<zh.cha>>} :
              Follows(trim(parse.arg.text), h)

C30_Witness ==
  /\ Returned("parseCommand")
  /\ parse.arg.text = <<"#", zh.chu, "1">>
  /\ parse.res.type = "sku" /\ parse.res.arg = <<zh.chu, "1">>

\* C27: the 200 status of a request is sent before handleEvent_ does anything
\* for its event, and nothing the handler does afterwards, whatever its
\* outcome, changes it.
C27_Step ==
  \A h \in Handlers :
    /\ hs[h].pc # "idle" => hs[h].ack
    /\ hs'[h].pc # "idle" => hs'[h].ack
    /\ hs[h].ack => hs'[h].ack
    /\ hs[h].pc = "idle" => ~hs[h].ack

C27_AckFirst == [][C27_Step]_vars

C27_Witness ==
  \E h, g \in Handlers :
    /\ hs[h].pc = "done" /\ hs[h].reply = "failed" /\ hs[h].ack
    /\ hs[g].pc = "dedup" /\ hs[g].ack

\* the run h has taken this step
Stepped(h) == hs'[h] # hs[h]

\* the entries the caches keep under the key k
EntriesOf(k) == <<LAST_SKU_BY_ACTOR[k], LAST_WH_BY_ACTOR[k], OUT_LOCK[k]>>

\* C29: a step of the run of one conversation's event leaves the last SKU, the
\* last warehouse and the outbound lock of every other conversation as they
\* were, and what it takes from the caches (the SKU of a text out-command, the
\* refusal while locked) it takes from its own conversation's entries.
C29_Step ==
  \A h \in Handlers :
    Stepped(h) =>
      /\ \A k \in ActorKeys :
           k # getActorKey_(hs'[h].ev.source) => EntriesOf(k)' = EntriesOf(k)
      /\ \A g \in Handlers :
           hs[g].pc # "idle" /\ hs[g].ev.source # hs'[h].ev.source
             => EntriesOf(Actor(g))' = EntriesOf(Actor(g))
      /\ hs[h].pc = "dedup" /\ hs'[h].reply = "retry_shortly"
           => isOutLocked_(OUT_LOCK, Actor(h), now)
      /\ hs[h].pc = "dedup" /\ hs'[h].pc \in {"whlist", "before"}
           => ~isOutLocked_(OUT_LOCK, Actor(h), now)
      /\ hs[h].pc = "dedup" /\ hs'[h].kind = "out_text" /\ hs'[h].pc = "whlist"
           => hs'[h].sku = getLastSku_(LAST_SKU_BY_ACTOR, Actor(h))
      /\ hs[h].pc = "dedup" /\ hs'[h].reply = "select_sku_first"
           => getLastSku_(LAST_SKU_BY_ACTOR, Actor(h)) = <<>>

C29_ActorsApart == [][C29_Step]_vars

\* the group's out-command goes ahead, from the group's own last SKU, while
\* the one-to-one chat, its out-command done, still holds its lock and its SKU
C29_Witness ==
  \E h, g \in Handlers :
    /\ hs[h].ev.source = GroupSource /\ hs[g].ev.source \in Sources
    /\ hs[g].kind = "out_pb" /\ hs[g].rpc = "ok"
    /\ isOutLocked_(OUT_LOCK, Actor(g), now)
    /\ hs[h].kind = "out_text" /\ hs[h].reply = "select_sku_first"
    /\ LAST_SKU_BY_ACTOR[Actor(g)] = skuA /\ LAST_SKU_BY_ACTOR[Actor(h)] = <<>>

\* the figures of sku a in main as the lot table has them
MainNow ==
  Figures(getWarehouseSnapshotDetailsFromLots_(inventory_lots, skuA, main, UnitsPerBoxOf(skuA)))

\* C28: in the conversation lookup, tap on main, "chu 3 xiang": the lookup is
\* answered with the warehouse choice; the tap with the snapshot of main; the
\* out-command takes main from the last-used warehouse without asking again,
\* checks the figures of main, calls the ledger once, for (a, main, 3, 0), and
\* answers success with the figures after the call.
C28_Step ==
  /\ hs'[1].pc = "done" => hs'[1].reply = "choose_wh_query"
  /\ hs'[2].pc = "done" => hs'[2].reply = "sku_info" /\ hs'[2].wh = main
  /\ hs[2].pc = "snap" /\ hs'[2].pc = "done" => hs'[2].shown = MainNow
  /\ hs'[3].reply \notin {"choose_wh", "choose_wh_query", "insufficient", "retry_shortly",
                          "select_sku_first", "no_stock", "failed"}
  /\ hs[3].pc = "whlist" /\ hs'[3].pc # "whlist"
       => /\ hs'[3].pc = "before" /\ hs'[3].wh = main /\ hs'[3].sku = skuA
          /\ hs'[3].outBox = 3 /\ hs'[3].outPiece = 0
  /\ hs[3].pc = "before" /\ hs'[3].pc # "before"
       => hs'[3].pc = "rpc" /\ hs'[3].before = MainNow /\ hs'[3].before = hs[2].shown
  /\ hs[3].pc = "rpc" /\ hs'[3].pc # "rpc"
       => /\ hs'[3].rpc = "ok"
          /\ inventory_lots' = LedgerApply(inventory_lots, skuA, main, 3, 0)
  /\ inventory_lots' # inventory_lots /\ (\E h \in 1 .. 3 : Stepped(h))
       => hs[3].pc = "rpc" /\ hs[3].rpc = "none" /\ hs'[3].pc = "after"
  /\ hs'[3].pc = "done"
       => /\ hs'[3].reply = "success" /\ hs'[3].rpc = "ok"
          /\ hs'[3].shown = [box |-> hs[3].before.box - 3, piece |-> hs[3].before.piece]
  /\ hs[3].pc = "after" /\ hs'[3].pc = "done" => hs'[3].shown = MainNow'

C28_Conversation == [][C28_Step]_vars

C28_Witness ==
  /\ hs[1].reply = "choose_wh_query"
  /\ hs[2].reply = "sku_info" /\ hs[2].shown = [box |-> 4, piece |-> 7]
  /\ hs[3].pc = "done" /\ hs[3].reply = "success" /\ hs[3].wh = main
  /\ hs[3].shown = [box |-> 1, piece |-> 7]
  /\ hs[3].ev.body = "TxtOut3Box" /\ hs[1].ev.body = "TxtSkuANum"

\* C25: the figures the pre-check of an outbound request compares are those
\* of the lot table at the moment of the pre-check, read for the run's own SKU
\* and warehouse; the step neither looks at nor touches the cached listing,
\* fresh or not, and takes nothing from what another run read.
C25_Step ==
  \A h \in FlowHandlers :
    hs[h].pc = "before" /\ hs'[h].pc # "before" =>
      /\ hs'[h].before = Figures(getWarehouseSnapshotDetailsFromLots_(
                                   inventory_lots, hs[h].sku, hs[h].wh, UnitsPerBoxOf(hs[h].sku)))
      /\ hs'[h].reply = "insufficient"
           <=> Insufficient(hs[h].outBox, hs[h].outPiece,
                            getWarehouseSnapshotDetailsFromLots_(
                              inventory_lots, hs[h].sku, hs[h].wh, UnitsPerBoxOf(hs[h].sku)))
      /\ hs'[h].pc = "rpc" <=> hs'[h].reply # "insufficient"
      /\ STOCK_LIST_CACHE' = STOCK_LIST_CACHE

C25_LiveFigures == [][C25_Step]_vars

\* the listing cached at the start is still fresh when a second out-request,
\* begun later, has been checked against figures an earlier one had changed
C25_Witness ==
  \E h, g \in FlowHandlers :
    /\ ListFresh(STOCK_LIST_CACHE, now) /\ STOCK_LIST_CACHE.ts = 0 /\ now > 0
    /\ hs[g].kind = "out_pb" /\ hs[g].reply = "success" /\ hs[g].before.box = 3
    /\ hs[h].kind = "out_pb" /\ hs[h].pc = "rpc" /\ hs[h].lockAt = now
    /\ hs[h].before.box = 2

\* C31: a run that is not an outbound request leaves the outbound lock as it
\* is, held or not, and is never answered with the refusal of the lock: the
\* version, query, barcode, SKU and warehouse commands get their own replies.
C31_Step ==
  \A h \in Handlers :
    Stepped(h) /\ hs'[h].kind \notin {"out_text", "out_pb"} =>
      /\ OUT_LOCK' = OUT_LOCK
      /\ hs'[h].reply # "retry_shortly"
      /\ hs'[h].lockAt = -1
      /\ hs'[h].pc = "done" /\ hs'[h].ev.body = "TxtDb" => hs'[h].reply = "version"
      /\ hs'[h].pc = "done" /\ hs'[h].ev.body \in {"TxtQueryA", "TxtBarcode1"}
           => hs'[h].reply = "choose_wh_query"
      /\ hs'[h].pc = "done" /\ hs'[h].ev.body = "TxtSkuB" => hs'[h].reply = "sku_info"
      /\ hs'[h].pc = "done" /\ hs'[h].ev.body \in {"TxtWhMain", "PbWhSelectSwap"}
           => hs'[h].reply \in {"sku_info", "select_sku_first_wh"}

C31_OnlyOutbound == [][C31_Step]_vars

\* the warehouse selection is answered with the snapshot while the lock the
\* out-request took is still held
C31_Witness ==
  \E h, g \in Handlers :
    /\ hs[g].kind = "out_pb" /\ hs[g].rpc = "ok"
    /\ isOutLocked_(OUT_LOCK, Actor(g), now) /\ Actor(h) = Actor(g)
    /\ hs[h].ev.body = "TxtWhMain" /\ hs[h].reply = "sku_info"

\* C32: an outbound request is refused by the lock only on account of a
\* request of the same actor that reached the ledger or is still under way: a
\* request that ended without a ledger call (here the text out-command
\* answered with the warehouse prompt) does not make the tap that follows it
\* be refused.
C32_Step ==
  \A h \in FlowHandlers :
    hs[h].reply # "retry_shortly" /\ hs'[h].reply = "retry_shortly" =>
      \E g \in FlowHandlers :
        /\ g # h /\ Actor(g) = getActorKey_(hs'[h].ev.source)
        /\ hs[g].lockAt >= 0 /\ now < hs[g].lockAt + OUT_LOCK_MS
        /\ hs[g].rpc # "none" \/ hs[g].pc \notin {"done", "threw"}

C32_PromptDoesNotBlock == [][C32_Step]_vars

\* C33: whenever the ledger mutation is called, the box and the piece
\* quantity it is given are not negative.
C33_NonNegative ==
  \A h \in Handlers :
    hs[h].pc = "rpc" \/ hs[h].rpc # "none" => hs[h].outBox >= 0 /\ hs[h].outPiece >= 0

\* C34: parsePostback applied to the data string the out-prompt builder makes
\* for a SKU, a warehouse code and two quantities gives the outbound-confirm
\* with exactly that SKU, that code and those quantities.
C34_RoundTrip ==
  Returned("buildQuickReplyWarehousesForOut_") =>
    parse.res.pb = [type |-> "out_postback", sku |-> parse.arg.sku, wh |-> parse.arg.code,
                    box |-> parse.arg.outBox, piece |-> parse.arg.outPiece]

C34_Witness ==
  /\ Returned("buildQuickReplyWarehousesForOut_")
  /\ parse.arg.sku = <<"a", "&", "b", "=", "1">> /\ parse.arg.code = <<"x", " ", "y">>
  /\ parse.arg.outBox = 12 /\ parse.arg.outPiece = 100
  /\ parse.res.pb.sku = parse.arg.sku /\ parse.res.pb.box = 12
  /\ parse.res.data # OutData(<<"a">>, parse.arg.code, 12, 100)

\* C35: the code of the label of a registry code is that code, main_warehouse
\* folded to main; and the code of a code the resolver returned is that code
\* again.
C35_BothWays ==
  /\ Returned("resolveWarehouseLabel_") /\ LabelOfCode(parse.arg.text) # Null
       => getWarehouseCodeForLabel_(parse.res)
            = (IF parse.arg.text = main_warehouse THEN main ELSE parse.arg.text)
  /\ Returned("getWarehouseCodeForLabel_")
       => getWarehouseCodeForLabel_(parse.res) = parse.res

C35_Witness ==
  /\ Returned("resolveWarehouseLabel_") /\ parse.arg.text = main_warehouse
  /\ parse.res = <<zh.zong, zh.cang>> /\ getWarehouseCodeForLabel_(parse.res) = main

\* C36: from its sufficiency snapshot to the end of its turn a run keeps its
\* SKU and its warehouse, whatever other events of the actor do to the last
\* SKU and the last-used warehouse meanwhile; the snapshot is taken for that
\* pair and the ledger consumes from that pair.
C36_Step ==
  \A h \in Handlers :
    /\ hs[h].pc \in {"before", "rpc", "after"}
         => hs'[h].sku = hs[h].sku /\ hs'[h].wh = hs[h].wh
    /\ hs[h].pc = "before" /\ hs'[h].pc # "before" /\ hs'[h].pc # "threw"
         => hs'[h].before = Figures(getWarehouseSnapshotDetailsFromLots_(
                                      inventory_lots, hs[h].sku, hs[h].wh,
                                      UnitsPerBoxOf(hs[h].sku)))
    /\ hs[h].pc = "rpc" /\ hs'[h].pc # "rpc"
         => inventory_lots' \in {inventory_lots,
                                 LedgerApply(inventory_lots, hs[h].sku, hs[h].wh,
                                             hs[h].outBox, hs[h].outPiece)}
    /\ hs[h].pc = "rpc" /\ hs'[h].rpc = "ok"
         => inventory_lots' = LedgerApply(inventory_lots, hs[h].sku, hs[h].wh,
                                          hs[h].outBox, hs[h].outPiece)

C36_SamePair == [][C36_Step]_vars

\* the ledger has consumed a box of sku a in main for a run during which a tap
\* of the same actor made swap the last-used warehouse
C36_Witness ==
  \E h, g \in Handlers :
    /\ Actor(h) = Actor(g) /\ hs[g].kind = "wh_select_pb" /\ hs[g].wh = swap
    /\ hs[h].kind = "out_pb" /\ hs[h].rpc = "err" /\ hs[h].wh = main /\ hs[h].sku = skuA
    /\ getLastWh_(LAST_WH_BY_ACTOR, Actor(h)) = swap
    /\ inventory_lots = LedgerApply(InitLots, skuA, main, hs[h].outBox, hs[h].outPiece)
    /\ inventory_lots # InitLots

\* C37: an out-command without hint, for a SKU stocked in two or more
\* warehouses for which no earlier event of the conversation set a warehouse,
\* is answered with the warehouse prompt and deducts nothing.
C37_Step ==
  \A h \in FlowHandlers :
    /\ hs[h].pc = "whlist" /\ hs'[h].pc # "whlist" /\ hs[h].hint = <<>>
    /\ Cardinality(StockedCodes(inventory_lots, hs[h].sku)) >= 2
    /\ \A g \in FlowHandlers : g # h /\ hs[g].sku = hs[h].sku => hs[g].wh = <<>>
    => hs'[h].pc = "done" /\ hs'[h].reply = "choose_wh"

C37_PromptsForNewSku == [][C37_Step]_vars

\* the run g recorded its event and stopped on an error before the ledger call
StoppedBeforeLedger(g) ==
  /\ trim(hs[g].ev.eventId) # <<>>
  /\ hs[g].dd = "ok" /\ hs[g].pc = "threw" /\ hs[g].rpc = "none"

\* C38 as stated: once the first handling of an event has recorded the
\* identifier and stopped before the ledger call, every other delivery of the
\* event is dropped at the dedup guard and executes nothing.
C38_AsStated ==
  \A g, h \in Handlers :
    /\ g # h /\ StoppedBeforeLedger(g)
    /\ hs[h].pc \notin {"idle", "dedup"} /\ hs[h].ev = hs[g].ev
    => DroppedAtGuard(h)

\* C38 amended: the same, for the deliveries whose own dedup insert did not
\* fail with an error other than the uniqueness conflict.
C38_NotRetried ==
  \A g, h \in Handlers :
    /\ g # h /\ StoppedBeforeLedger(g)
    /\ hs[h].pc \notin {"idle", "dedup"} /\ hs[h].ev = hs[g].ev
    /\ hs[h].dd # "err"
    => hs[h].dd = "dup" /\ DroppedAtGuard(h)

\* an out-request stopped on its stock read, and its redelivery was dropped
C38_Witness ==
  \E g, h \in Handlers :
    /\ g < h /\ StoppedBeforeLedger(g) /\ hs[g].kind = "out_pb"
    /\ hs[h].ev = hs[g].ev /\ hs[h].dd = "dup" /\ hs[h].pc = "done"
    /\ hs[h].rpc = "none" /\ hs[h].reply = "none"

\* C39: the box, piece and amount getWarehousesStockBySkuFromLots_ lists for
\* a warehouse are those getWarehouseSnapshotDetailsFromLots_ returns for the
\* same SKU, warehouse, lots and units per box.
C39_Agree ==
  Returned("getWarehouseSnapshotDetailsFromLots_") =>
    \A i \in DOMAIN parse.res.list :
      parse.res.list[i].code = parse.res.snap.code =>
        /\ parse.res.list[i].box = parse.res.snap.box
        /\ parse.res.list[i].piece = parse.res.snap.piece
        /\ parse.res.list[i].amount = parse.res.snap.amount

\* C40: every run that was dispatched to a command or postback handler and has
\* ended, normally or on a failed external call, has attempted a reply to the
\* user; and a run that ended on a failed stock read before the ledger call has
\* not called the ledger.
C40_EndsWithReply ==
  \A h \in Handlers :
    hs[h].kind # "none" /\ hs[h].pc \in {"done", "threw"} =>
      /\ hs[h].reply # "none"
      /\ hs[h].pc = "threw" /\ hs[h].before = NoSnap => hs[h].rpc = "none"

====
